---- MODULE Spec2Model ----
(***************************************************************************)
(* Verification model of the TimeTable scheduler (tts_v6.2/scheduling and  *)
(* backend/scheduler/services).                                            *)
(*                                                                         *)
(* schedule_timetable builds a CP-SAT feasibility model and returns the    *)
(* assignment the solver reports.  The solver is modelled as a search that *)
(* sets decision variables to 1 one at a time and then evaluates every     *)
(* constraint the code adds to the model on the candidate: a candidate     *)
(* that satisfies all of them can be returned (and is then extracted into  *)
(* schedule_map / new_allocations exactly as step 14 does), any other      *)
(* candidate is rejected.                                                  *)
(***************************************************************************)
EXTENDS Integers, Sequences, FiniteSets, TLC

VARIABLES
    cfg,              \* the arguments of the call
    pc,               \* position of the call
    val,              \* keys of `assignments` whose variable is 1 in the candidate
    coh,              \* keys of `assigned_cohort_sec` whose variable is 1
    schedule_map,     \* returned dict, as a set of <<day, slot, room, sec, code, csec>>
    new_allocations,  \* returned list, as a set of <<kind, room, day, slot, occupant>>
    call,             \* arguments of schedule_with_auto_optimization
    dpc,              \* position of the driver
    heap,             \* the ledger objects: top-level dicts and the per-kind dicts they refer to
    current_usage,    \* schedule_hierarchical: address of current_usage
    existing_usage,   \* merge_usage_data: address of the ledger passed to the last merge
    todo,             \* schedule_hierarchical: semesters of sorted_semesters still to solve
    combined_schedule_map,  \* schedule_hierarchical: combined_schedule_map
    all_allocations,  \* schedule_hierarchical: all_allocations
    result,           \* what the driver returned
    elec,             \* arguments of schedule_electives
    epc,              \* position of schedule_electives
    e_choose,         \* (code, idx) whose choose_theory variable is 1 in the candidate
    e_val,            \* keys of the electives' `assignments` whose variable is 1
    e_result,         \* what schedule_electives returned
    tin,              \* assign_teachers: the stored placements and preferences, clear_existing,
                      \* the stored teacher fields before the call, the number of the call
    tpc,              \* position of assign_teachers
    db_teacher,       \* stored teacher field of every TimetableSlot row
    timetable_slots,  \* self.timetable_slots, the ids of the loaded placements in order
    slot_teacher,     \* teacher_id attribute of the loaded placement objects
    sorted_prefs,     \* sorted_prefs
    pref_i,           \* index of the preference being processed
    matching_slots,   \* the part of matching_slots the inner loop has not visited
    assigned_count,   \* assigned_count
    assigned_slots,   \* assigned_slots
    teacher_timeslots,    \* teacher_timeslots
    teacher_workload,     \* teacher_workload
    assignments_to_save,  \* assignments_to_save
    t_result,         \* what assign_teachers returned
    rdb,              \* scheduler_runner: the TimetableSlot, ElectiveSlot and ScheduleRun rows
    rcall,            \* scheduler_runner: the running or last call, its inputs, the rows
                      \* before it, and the call before it
    rpc,              \* position of run_main_schedule / run_electives
    r_result          \* what the last call returned

svars == <<cfg, pc, val, coh, schedule_map, new_allocations>>
dvars == <<call, dpc, heap, current_usage, existing_usage, todo, combined_schedule_map,
           all_allocations, result>>
evars == <<elec, epc, e_choose, e_val, e_result>>
tvars == <<tin, tpc, db_teacher, timetable_slots, slot_teacher, sorted_prefs, pref_i,
           matching_slots, assigned_count, assigned_slots, teacher_timeslots,
           teacher_workload, assignments_to_save, t_result>>
rvars == <<rdb, rcall, rpc, r_result>>
outside_solver == <<dvars, evars, tvars, rvars>>
outside_driver == <<evars, tvars, rvars>>
outside_electives == <<svars, dvars, tvars, rvars>>
outside_teachers == <<svars, dvars, evars, rvars>>
outside_runner == <<dvars, tvars>>
vars == <<svars, dvars, evars, tvars, rvars>>

----------------------------------------------------------------------------
(* Generic helpers *)

Range(s) == {s[i] : i \in DOMAIN s}

RECURSIVE SumOver(_, _)
SumOver(S, f) ==
    IF S = {} THEN 0
    ELSE LET x == CHOOSE y \in S : TRUE IN f[x] + SumOver(S \ {x}, f)

MinOf(S) == CHOOSE x \in S : \A y \in S : x <= y
MaxOf(S) == CHOOSE x \in S : \A y \in S : x >= y

----------------------------------------------------------------------------
(* Program constants: the slot catalogue of app.py and the minute tables   *)
(* hard-coded in schedule_timetable.                                       *)

DAYS == <<"Monday", "Tuesday", "Wednesday", "Thursday", "Friday", "Saturday">>
THEORY_TIMESLOTS == <<0, 1, 2, 3, 4, 5, 6>>
LAB_SLOTS == <<0, 1, 2, 3>>
LAB_OVERLAP_MAP == (0 :> <<0, 1>>) @@ (1 :> <<2, 3>>) @@ (2 :> <<4, 5>>) @@ (3 :> <<6>>)

theory_start_times ==
    (0 :> 480) @@ (1 :> 570) @@ (2 :> 660) @@ (3 :> 750) @@ (4 :> 840) @@ (5 :> 930) @@ (6 :> 1020)
theory_end_times ==
    (0 :> 555) @@ (1 :> 645) @@ (2 :> 735) @@ (3 :> 825) @@ (4 :> 915) @@ (5 :> 1005) @@ (6 :> 1095)
lab_start_times == (0 :> 480) @@ (1 :> 660) @@ (2 :> 840) @@ (3 :> 1020)
lab_end_times == (0 :> 630) @@ (1 :> 810) @@ (2 :> 990) @@ (3 :> 1170)

BIG_M == 1440
CohortSeat == 50
NoCutoff == 0 - 1

DaySet == Range(DAYS)
TheorySet == Range(THEORY_TIMESLOTS)
LabSet == Range(LAB_SLOTS)
DayIndex(d) == CHOOSE i \in DOMAIN DAYS : DAYS[i] = d

\* `d == "Friday" and t == 3`, the test that guards every theory loop
FridaySkip(d, t) == d = "Friday" /\ t = 3

\* LAB_OVERLAP_MAP.get(ls, [])
OverlapList(ls) == IF ls \in DOMAIN LAB_OVERLAP_MAP THEN Range(LAB_OVERLAP_MAP[ls]) ELSE {}

\* theory_to_lab_map.get(t, [])
theory_to_lab_map(t) == {ls \in LabSet : t \in OverlapList(ls)}

----------------------------------------------------------------------------
(* The arguments of schedule_timetable, read from cfg.                     *)
(* A course is <<code, is_lab, times_needed>>; a section is <<sem, i>>,    *)
(* standing for the name "S<sem><program_code><i>"; a cohort offering is a *)
(* record [cohort_section, capacity, day_time_list, cohort_room].          *)

SelSems == Range(cfg.selected_semesters)
Courses(sem) == Range(cfg.semester_courses_map[sem])
CourseIndex(sem, code) ==
    CHOOSE i \in DOMAIN cfg.semester_courses_map[sem] : cfg.semester_courses_map[sem][i][1] = code
theory_rooms == Range(cfg.theory_rooms)

\* constraints.get(...) with the defaults of lines 44-47
max_hours_per_day == cfg.constraints.maxHoursPerDay
working_days_per_week == cfg.constraints.workingDaysPerWeek
min_gap_minutes == cfg.constraints.minGapMinutes
no_classes_after_hour == cfg.constraints.noClassesAfterHour

\* math.ceil(num_students / section_size) names, i = 1..count
build_sections_for_semester(sem, num_students, section_size) ==
    {<<sem, i>> : i \in 1..((num_students + section_size - 1) \div section_size)}

semester_sections_map2(sem) ==
    build_sections_for_semester(sem, cfg.section_sizes[sem], cfg.section_size)
all_sections == UNION {semester_sections_map2(sem) : sem \in SelSems}

\* step 2: normal labs, special labs and their union
all_special_labs == UNION {Range(cfg.special_lab_rooms[c]) : c \in DOMAIN cfg.special_lab_rooms}
normal_labs == Range(cfg.lab_rooms) \ all_special_labs
combined_labs == normal_labs \cup all_special_labs

\* every lab room offered to every lab course
AnyLabRoom(code) == combined_labs

\* `valid_labs` / `labs_` / `lab_candidates` of a lab course
ValidLabs(code) ==
    IF code \in DOMAIN cfg.special_lab_rooms THEN Range(cfg.special_lab_rooms[code])
    ELSE normal_labs

\* `enable_cohort and cohort_map`
CohortOn == cfg.enable_cohort /\ DOMAIN cfg.cohort_map # {}

\* `code in is_cohort_course.get(sem, [])`
is_cohort_course(sem, code) == CohortOn /\ <<sem, code>> \in DOMAIN cfg.cohort_map

\* cohort_map.get((sem, code), [])
CSections(sem, code) ==
    IF <<sem, code>> \in DOMAIN cfg.cohort_map THEN Range(cfg.cohort_map[<<sem, code>>]) ELSE {}

\* the courses that get normal variables: non-cohort courses of the semester
NormalCourses(sem) == {c \in Courses(sem) : ~(cfg.enable_cohort /\ is_cohort_course(sem, c[1]))}

----------------------------------------------------------------------------
(* Step 3: the capacity pre-check.                                          *)

theory_used == Cardinality(cfg.usage_data.theory)
lab_used == Cardinality(cfg.usage_data.lab)
available_theory == Len(DAYS) * Len(THEORY_TIMESLOTS) * Cardinality(theory_rooms) - theory_used
available_lab == Len(DAYS) * Len(LAB_SLOTS) * Cardinality(combined_labs) - lab_used

\* the demand is summed per course of each selected semester (not per section)
NeededOf(isLab) ==
    LET P == UNION {{<<sem, i>> : i \in DOMAIN cfg.semester_courses_map[sem]} : sem \in SelSems}
        course(p) == cfg.semester_courses_map[p[1]][p[2]]
    IN SumOver(P, [p \in P |-> IF course(p)[2] = isLab THEN course(p)[3] ELSE 0])

needed_theory == NeededOf(FALSE)
needed_lab == NeededOf(TRUE)

\* the two `raise ValueError` of lines 97-104
CapacityError == needed_theory > available_theory \/ needed_lab > available_lab

----------------------------------------------------------------------------
(* Steps 5 and 6: the decision variables that exist.                        *)

\* the cohort courses of a semester's course list
CohortCourses(sem) == {c \in Courses(sem) : is_cohort_course(sem, c[1])}

\* keys of assigned_cohort_sec: (normal_sec, code, csec_name)
CohortKeysOf(sem) ==
    UNION {{<<sc[1], sc[2][1], cs.cohort_section>> : cs \in CSections(sem, sc[2][1])}
           : sc \in semester_sections_map2(sem) \X CohortCourses(sem)}

assigned_cohort_sec == IF CohortOn THEN UNION {CohortKeysOf(sem) : sem \in SelSems} ELSE {}

\* the offering (csec_data) a cohort key names
CSecOfKey(ck) == CHOOSE cs \in CSections(ck[1][1], ck[2]) : cs.cohort_section = ck[3]

\* is the (room, day, slot) listed in usage_data[kind]?
Used(kind, r, d, s) == <<r, d, s>> \in cfg.usage_data[kind]

\* keys of `assignments` of one (section, course): (sec, code, d, t_or_ls, room)
KeysOf(sec, c) ==
    IF ~c[2]
    THEN {<<sec, c[1], d, t, r>> : <<d, t, r>> \in
             {x \in DaySet \X TheorySet \X theory_rooms :
                 ~FridaySkip(x[1], x[2]) /\ ~Used("theory", x[3], x[1], x[2])}}
    ELSE {<<sec, c[1], d, ls, r>> : <<d, ls, r>> \in
             {x \in DaySet \X LabSet \X ValidLabs(c[1]) : ~Used("lab", x[3], x[1], x[2])}}

SecCourses == UNION {semester_sections_map2(sem) \X NormalCourses(sem) : sem \in SelSems}

assignments == UNION {KeysOf(sc[1], sc[2]) : sc \in SecCourses}

\* the course tuple a key belongs to
CourseOfKey(k) == CHOOSE c \in Courses(k[1][1]) : c[1] = k[2]
KeyIsLab(k) == CourseOfKey(k)[2]

----------------------------------------------------------------------------
(* The constraints, evaluated on a candidate: v is the set of keys of      *)
(* `assignments` whose variable is 1, ch the set of keys of                *)
(* `assigned_cohort_sec` whose variable is 1.                              *)

TheoryKeysAt(v, d, t) == {k \in v : ~KeyIsLab(k) /\ k[3] = d /\ k[4] = t}
LabKeysAt(v, d, ls) == {k \in v : KeyIsLab(k) /\ k[3] = d /\ k[4] = ls}
OfSec(K, sec) == {k \in K : k[1] = sec}
OfCourse(v, sec, code) == {k \in v : k[1] = sec /\ k[2] = code}

\* values of an auxiliary 0/1 variable b admitted by the two linking
\* inequalities  n >= b  and  n <= M * b
LinkValues(n, M) == {b \in {0, 1} : n >= b /\ n <= M * b}

\* step 7: sum of the (section, course) variables == times_needed
TimesNeededOK(v) ==
    \A sc \in SecCourses : Cardinality(OfCourse(v, sc[1], sc[2][1])) = sc[2][3]

\* lines 215-243: day_assigned of a theory course; the linking admits at most
\* one value per day, so the variable is that value
DayCount(v, sec, code, d) == Cardinality({k \in OfCourse(v, sec, code) : k[3] = d})

\* the day_assigned constraints left out
DistinctDayOff(v) == TRUE

DistinctDayOK(v) ==
    \A sc \in {x \in SecCourses : ~x[2][2]} :
        LET sec == sc[1]
            code == sc[2][1]
            times_needed == sc[2][3]
            DA(d) == LinkValues(DayCount(v, sec, code, d), Len(THEORY_TIMESLOTS))
        IN /\ \A d \in DaySet : DA(d) # {}
           /\ LET day_assigned == [d \in DaySet |-> CHOOSE b \in DA(d) : TRUE]
              IN /\ SumOver(DaySet, day_assigned) = times_needed
                 /\ times_needed > 1 =>
                        \A i \in 1..(Len(DAYS) - 1) :
                            day_assigned[DAYS[i]] + day_assigned[DAYS[i + 1]] <= 1

\* the room constraint with its lab half left out
RoomMutexTheoryOnly(v) ==
    \A d \in DaySet, t \in TheorySet, r \in theory_rooms :
        ~FridaySkip(d, t) => Cardinality({k \in TheoryKeysAt(v, d, t) : k[5] = r}) <= 1

\* step 8: no double-booking of rooms
RoomMutexOK(v) ==
    /\ \A d \in DaySet, t \in TheorySet, r \in theory_rooms :
           ~FridaySkip(d, t) => Cardinality({k \in TheoryKeysAt(v, d, t) : k[5] = r}) <= 1
    /\ \A d \in DaySet, ls \in LabSet, labr \in combined_labs :
           Cardinality({k \in LabKeysAt(v, d, ls) : k[5] = labr}) <= 1

\* step 9, lines 277-302: one theory class per theory slot, one lab per lab slot
SectionMutexOK(v) ==
    \A sec \in all_sections, d \in DaySet :
        /\ \A t \in TheorySet :
               ~FridaySkip(d, t) =>
                   Cardinality({k \in OfSec(TheoryKeysAt(v, d, t), sec) : k[5] \in theory_rooms}) <= 1
        /\ \A ls \in LabSet :
               Cardinality({k \in OfSec(LabKeysAt(v, d, ls), sec) : k[5] \in combined_labs}) <= 1

\* step 9, lines 304-329: lab_var + tv <= 1 for the theory slots of LAB_OVERLAP_MAP[ls]
LabTheoryOverlapOK(v) ==
    \A kl \in {k \in v : KeyIsLab(k)} :
        \A kt \in {k \in v : ~KeyIsLab(k)} :
            ~(/\ kt[1] = kl[1]
              /\ kt[3] = kl[3]
              /\ kt[4] \in OverlapList(kl[4])
              /\ ~FridaySkip(kt[3], kt[4]))

----------------------------------------------------------------------------
(* Step 10: cohort logic (only when enable_cohort and cohort_map).          *)

\* the (day, slot) pairs of an offering that the loops do not skip
DayTimes(cs) == {p \in Range(cs.day_time_list) : ~FridaySkip(p[1], p[2])}

\* (A) exactly one offering per (normal section, cohort course)
CohortExactlyOneOK(ch) ==
    CohortOn =>
        \A sem \in SelSems :
            \A sc \in semester_sections_map2(sem) \X CohortCourses(sem) :
                Cardinality({ck \in ch : ck[1] = sc[1] /\ ck[2] = sc[2][1]}) = 1

\* (B) sum(assigned * 50) <= capacity, per offering of a selected semester
CohortCapacityOK(ch) ==
    CohortOn =>
        \A key \in {x \in DOMAIN cfg.cohort_map : x[1] \in SelSems} :
            \A cs \in CSections(key[1], key[2]) :
                CohortSeat * Cardinality({ck \in ch : /\ ck[1] \in semester_sections_map2(key[1])
                                                      /\ ck[2] = key[2]
                                                      /\ ck[3] = cs.cohort_section})
                    <= cs.capacity

\* (C) var_cohort + var <= 1 for the normal variables of the section that
\* sit on the offering's (day, slot) or on a slot LAB_OVERLAP_MAP relates to it
CohortBlocks(ck, k) ==
    /\ k[1] = ck[1]
    /\ \E p \in DayTimes(CSecOfKey(ck)) :
          /\ k[3] = p[1]
          /\ \/ k[4] = p[2]
             \/ p[2] \in LabSet /\ ~KeyIsLab(k) /\ k[4] \in OverlapList(p[2])
                  /\ ~FridaySkip(p[1], k[4])
             \/ p[2] \in TheorySet /\ KeyIsLab(k) /\ k[4] \in theory_to_lab_map(p[2])

CohortBlockOK(v, ch) ==
    CohortOn => \A ck \in ch : \A k \in v : ~CohortBlocks(ck, k)

\* (D) slots_overlap of two fixed placements
slots_overlap(day1, slot1, is_lab1, day2, slot2, is_lab2) ==
    IF day1 # day2 THEN FALSE
    ELSE IF ~is_lab1 /\ ~is_lab2 THEN slot1 = slot2
    ELSE IF is_lab1 /\ is_lab2 THEN slot1 = slot2
    ELSE IF ~is_lab1 /\ is_lab2 THEN slot1 \in OverlapList(slot2)
    ELSE slot2 \in OverlapList(slot1)

CourseIsLab(sem, code) == (CHOOSE c \in Courses(sem) : c[1] = code)[2]

CohortPairOverlap(ck1, ck2) ==
    \E p1 \in Range(CSecOfKey(ck1).day_time_list), p2 \in Range(CSecOfKey(ck2).day_time_list) :
        slots_overlap(p1[1], p1[2], CourseIsLab(ck1[1][1], ck1[2]),
                      p2[1], p2[2], CourseIsLab(ck2[1][1], ck2[2]))

\* v1 + v2 <= 1 for two offerings of different cohort courses of the section
CohortCohortOK(ch) ==
    CohortOn =>
        \A ck1 \in ch, ck2 \in ch :
            (ck1[1] = ck2[1] /\ ck1[2] # ck2[2]) => ~CohortPairOverlap(ck1, ck2)

----------------------------------------------------------------------------
(* Step 11: working days.                                                   *)

\* `normal_vars` of (sec, d): every variable of the section on that day
NormalVarsOn(v, sec, d) == {k \in v : k[1] = sec /\ k[3] = d}

WorkingDaysOK(v, ch) ==
    \A sec \in all_sections :
        LET DU(d) == LinkValues(Cardinality(NormalVarsOn(v, sec, d)), 999)
        IN /\ \A d \in DaySet : DU(d) # {}
           /\ LET day_in_use == [d \in DaySet |-> CHOOSE b \in DU(d) : TRUE]
              IN /\ CohortOn =>
                        \A ck \in {x \in ch : x[1] = sec} :
                            \A p \in DayTimes(CSecOfKey(ck)) : 1 <= day_in_use[p[1]]
                 /\ SumOver(DaySet, day_in_use) <= working_days_per_week

----------------------------------------------------------------------------
(* Step 12: cutoff, slot usage, gap and span.                               *)

\* the span bound set to the whole day
WholeDaySpan == BIG_M

allowed_span_minutes ==
    IF max_hours_per_day * 60 > 0 THEN max_hours_per_day * 60 ELSE 0

cutoff_end_minute == no_classes_after_hour * 60

\* lines 561-567 and 579-586: the end minute compared with the cutoff is
\* looked up by slot index, theory table first
SlotEndsAfterCutoff(slot) ==
    IF slot \in TheorySet THEN theory_end_times[slot] > cutoff_end_minute
    ELSE IF slot \in LabSet THEN lab_end_times[slot] > cutoff_end_minute
    ELSE FALSE

\* lines 577-586: an offering violates if one of its slots ends late
CohortViolates(cs) == \E p \in Range(cs.day_time_list) : SlotEndsAfterCutoff(p[2])

CutoffOK(v, ch) ==
    no_classes_after_hour # NoCutoff =>
        /\ \A k \in v : ~SlotEndsAfterCutoff(k[4])
        /\ CohortOn => \A ck \in ch : ~CohortViolates(CSecOfKey(ck))

\* lines 593-682: slot usage of a section, normal plus cohort
has_normal_theory(v, sec, d, t) ==
    Cardinality({k \in OfSec(TheoryKeysAt(v, d, t), sec) : k[5] \in theory_rooms})
has_normal_lab(v, sec, d, ls) ==
    Cardinality({k \in OfSec(LabKeysAt(v, d, ls), sec) : k[5] \in combined_labs})

CohortHits(ch, sec, d, slot, isLab) ==
    {ck \in ch : /\ ck[1] = sec
                 /\ CourseIsLab(ck[1][1], ck[2]) = isLab
                 /\ <<d, slot>> \in Range(CSecOfKey(ck).day_time_list)}

has_cohort_theory(ch, sec, d, t) == IF CohortOn THEN Cardinality(CohortHits(ch, sec, d, t, FALSE)) ELSE 0
has_cohort_lab(ch, sec, d, ls) == IF CohortOn THEN Cardinality(CohortHits(ch, sec, d, ls, TRUE)) ELSE 0

has_theory(v, ch, sec, d, t) == has_normal_theory(v, sec, d, t) + has_cohort_theory(ch, sec, d, t)
has_lab(v, ch, sec, d, ls) == has_normal_lab(v, sec, d, ls) + has_cohort_lab(ch, sec, d, ls)

\* the domains of the has_* variables: BoolVar for the normal ones,
\* IntVar(0, 1) for the cohort ones
HasDomainOK(v, ch) ==
    \A sec \in all_sections, d \in DaySet :
        /\ \A t \in TheorySet :
               ~FridaySkip(d, t) =>
                   has_normal_theory(v, sec, d, t) <= 1 /\ has_cohort_theory(ch, sec, d, t) <= 1
        /\ \A ls \in LabSet :
               has_normal_lab(v, sec, d, ls) <= 1 /\ has_cohort_lab(ch, sec, d, ls) <= 1

\* no theory-theory pair constrained
NoTheoryTheoryGapPairs == {}

\* lines 684-718: the pairs of slots the gap constraint forbids
TheoryTheoryGapPairs ==
    {p \in TheorySet \X TheorySet :
        \E i \in DOMAIN THEORY_TIMESLOTS, j \in DOMAIN THEORY_TIMESLOTS :
            /\ i < j /\ THEORY_TIMESLOTS[i] = p[1] /\ THEORY_TIMESLOTS[j] = p[2]
            /\ theory_start_times[p[2]] - theory_end_times[p[1]] < min_gap_minutes}

LabLabGapPairs ==
    {p \in LabSet \X LabSet :
        \E i \in DOMAIN LAB_SLOTS, j \in DOMAIN LAB_SLOTS :
            /\ i < j /\ LAB_SLOTS[i] = p[1] /\ LAB_SLOTS[j] = p[2]
            /\ lab_start_times[p[2]] - lab_end_times[p[1]] < min_gap_minutes}

\* <<t, ls>>: gap1 (theory then lab) or gap2 (lab then theory) below the minimum
TheoryLabGapPairs ==
    {p \in TheorySet \X LabSet :
        \/ lab_start_times[p[2]] - theory_end_times[p[1]] < min_gap_minutes
        \/ theory_start_times[p[1]] - lab_end_times[p[2]] < min_gap_minutes}

GapOK(v, ch) ==
    (min_gap_minutes > 0) =>
        \A sec \in all_sections, d \in DaySet :
            /\ \A p \in TheoryTheoryGapPairs :
                   (~FridaySkip(d, p[1]) /\ ~FridaySkip(d, p[2])) =>
                       has_theory(v, ch, sec, d, p[1]) + has_theory(v, ch, sec, d, p[2]) <= 1
            /\ \A p \in LabLabGapPairs :
                   has_lab(v, ch, sec, d, p[1]) + has_lab(v, ch, sec, d, p[2]) <= 1
            /\ \A p \in TheoryLabGapPairs :
                   ~FridaySkip(d, p[1]) =>
                       has_theory(v, ch, sec, d, p[1]) + has_lab(v, ch, sec, d, p[2]) <= 1

\* lines 720-753: start/end variables pinned by the has_* literals
\* (sentinels BIG_M and 0 when the slot is unused), Min/Max and the bound
start_vars(v, ch, sec, d) ==
    {IF has_theory(v, ch, sec, d, t) >= 1 THEN theory_start_times[t] ELSE BIG_M
        : t \in {x \in TheorySet : ~FridaySkip(d, x)}}
    \cup {IF has_lab(v, ch, sec, d, ls) >= 1 THEN lab_start_times[ls] ELSE BIG_M : ls \in LabSet}

end_vars(v, ch, sec, d) ==
    {IF has_theory(v, ch, sec, d, t) >= 1 THEN theory_end_times[t] ELSE 0
        : t \in {x \in TheorySet : ~FridaySkip(d, x)}}
    \cup {IF has_lab(v, ch, sec, d, ls) >= 1 THEN lab_end_times[ls] ELSE 0 : ls \in LabSet}

\* max_end - min_start <= allowed_span_minutes for one (section, day)
DaySpanOK(v, ch, sec, d) ==
    LET min_start == MinOf(start_vars(v, ch, sec, d))
        max_end == MaxOf(end_vars(v, ch, sec, d))
    IN max_end - min_start <= allowed_span_minutes

SpanOK(v, ch) ==
    \A sec \in all_sections, d \in DaySet : DaySpanOK(v, ch, sec, d)

\* every constraint of the CP model except the gap constraint
ModelOKExceptGap(v, ch) ==
    /\ TimesNeededOK(v)
    /\ DistinctDayOK(v)
    /\ RoomMutexOK(v)
    /\ SectionMutexOK(v)
    /\ LabTheoryOverlapOK(v)
    /\ CohortExactlyOneOK(ch)
    /\ CohortCapacityOK(ch)
    /\ CohortBlockOK(v, ch)
    /\ CohortCohortOK(ch)
    /\ WorkingDaysOK(v, ch)
    /\ CutoffOK(v, ch)
    /\ HasDomainOK(v, ch)
    /\ SpanOK(v, ch)

\* the whole CP model: status FEASIBLE/OPTIMAL with this assignment
ModelOK(v, ch) == ModelOKExceptGap(v, ch) /\ GapOK(v, ch)

\* the subsets of S with k elements
RECURSIVE KSubsets(_, _)
KSubsets(S, k) ==
    IF k = 0 THEN {{}}
    ELSE IF S = {} THEN {}
    ELSE LET x == CHOOSE y \in S : TRUE
         IN KSubsets(S \ {x}, k) \cup {T \cup {x} : T \in KSubsets(S \ {x}, k - 1)}

\* the assignments that give every (section, course) in SC exactly
\* times_needed variables at 1
RECURSIVE CandidateVals(_)
CandidateVals(SC) ==
    IF SC = {} THEN {{}}
    ELSE LET sc == CHOOSE x \in SC : TRUE
         IN {a \cup b : <<a, b>> \in KSubsets(KeysOf(sc[1], sc[2]), sc[2][3]) \X CandidateVals(SC \ {sc})}

\* the cohort assignments with exactly one offering per (section, cohort course)
RECURSIVE CandidateCohs(_)
CandidateCohs(PC) ==
    IF PC = {} THEN {{}}
    ELSE LET pr == CHOOSE x \in PC : TRUE
         IN {{ck} \cup b : <<ck, b>> \in
                {x \in assigned_cohort_sec : x[1] = pr[1] /\ x[2] = pr[2]} \X CandidateCohs(PC \ {pr})}

CohortPairs ==
    IF CohortOn
    THEN UNION {{<<sc[1], sc[2][1]>> : sc \in semester_sections_map2(sem) \X CohortCourses(sem)}
                : sem \in SelSems}
    ELSE {}

\* solver.Solve(model) reaches FEASIBLE/OPTIMAL iff some assignment satisfies the model
Feasible ==
    \E v \in CandidateVals(SecCourses) : \E ch \in CandidateCohs(CohortPairs) : ModelOK(v, ch)

----------------------------------------------------------------------------
(* Step 14: schedule_map and new_allocations.                               *)

SemPos(sem) == CHOOSE i \in DOMAIN cfg.selected_semesters : cfg.selected_semesters[i] = sem

\* f"CohortRoom({code}-{csec_name})", over the labels the inputs use
DefaultCohortRoom(code, csec_name) ==
    CASE csec_name = "C1" -> "CohortRoom(C1)"
      [] csec_name = "C2" -> "CohortRoom(C2)"
      [] OTHER -> "CohortRoom(other)"

\* chosen_data.get("cohort_room", f"CohortRoom(...)")
actual_room(code, cs) ==
    IF cs.cohort_room # "" THEN cs.cohort_room ELSE DefaultCohortRoom(code, cs.cohort_section)

\* the first offering of the list whose variable is 1 (`break`)
chosen_data(ch, sec, code) ==
    LET lst == cfg.cohort_map[<<sec[1], code>>]
        hit == {i \in DOMAIN lst : <<sec, code, lst[i].cohort_section>> \in ch}
    IN IF hit = {} THEN << >> ELSE <<lst[MinOf(hit)]>>

\* the writes of the first loop, in the order sem, sec, course
NormalWrites(v) ==
    {[key |-> <<k[3], k[4], k[5]>>,
      occ |-> <<k[1], k[2], "None">>,
      kind |-> IF KeyIsLab(k) THEN "lab" ELSE "theory",
      rank |-> (SemPos(k[1][1]) * 100 + k[1][2]) * 100 + CourseIndex(k[1][1], k[2])] : k \in v}

\* the writes of the cohort loop, in the order sem, course, sec; all after the first loop
CohortWritesOf(ch, sec, c) ==
    LET cd == chosen_data(ch, sec, c[1])
    IN IF cd = << >> THEN {}
       ELSE {[key |-> <<p[1], p[2], actual_room(c[1], cd[1])>>,
              occ |-> <<sec, c[1], cd[1].cohort_section>>,
              kind |-> "cohort",
              rank |-> 1000000 + (SemPos(sec[1]) * 100 + CourseIndex(sec[1], c[1])) * 100 + sec[2]]
             : p \in DayTimes(cd[1])}

CohortWrites(ch) ==
    IF ~CohortOn THEN {}
    ELSE UNION {UNION {CohortWritesOf(ch, sc[1], sc[2])
                       : sc \in semester_sections_map2(sem) \X CohortCourses(sem)}
                : sem \in SelSems}

Writes(v, ch) == NormalWrites(v) \cup CohortWrites(ch)

\* a dict keeps the last value written under a key
LastWriteWins(W) == {w \in W : \A w2 \in W : w2.key = w.key => w2.rank <= w.rank}

ExtractScheduleMap(v, ch) ==
    {<<w.key[1], w.key[2], w.key[3], w.occ[1], w.occ[2], w.occ[3]>> : w \in LastWriteWins(Writes(v, ch))}

\* (kind, room, day, slot, occupant_label), occupant_label = f"{sec}-{code}"
ExtractAllocations(v, ch) ==
    {<<w.kind, w.key[3], w.key[1], w.key[2], <<w.occ[1], w.occ[2]>>>> : w \in Writes(v, ch)}

----------------------------------------------------------------------------
(* Inputs.                                                                  *)

MaxSections == 2      \* sections per semester in the scaled inputs
MaxTimesNeeded == 2   \* times_needed of the theory course in the scaled inputs

DefaultConstraints ==
    [maxHoursPerDay |-> 8, workingDaysPerWeek |-> 6, minGapMinutes |-> 15, noClassesAfterHour |-> NoCutoff]

Constraints(h, w, g, c) ==
    [maxHoursPerDay |-> h, workingDaysPerWeek |-> w, minGapMinutes |-> g, noClassesAfterHour |-> c]

\* a ledger in which every (room, day, slot) of the rooms is occupied except the free ones
AllBut(rooms, slots, free) == {x \in rooms \X DaySet \X slots : x \notin free}

\* S1: one section, one theory course, one room, empty ledger
Base ==
    [selected_semesters |-> <<1>>,
     semester_courses_map |-> (1 :> <<<<"TH", FALSE, 2>>>>),
     section_sizes |-> (1 :> 50),
     section_size |-> 50,
     usage_data |-> [theory |-> {}, lab |-> {}],
     theory_rooms |-> <<"R1">>,
     lab_rooms |-> <<"L1">>,
     special_lab_rooms |-> << >>,
     cohort_map |-> << >>,
     enable_cohort |-> FALSE,
     constraints |-> DefaultConstraints]

\* one section with two theory courses and a lab, rooms mostly taken by earlier runs
Mixed ==
    [Base EXCEPT
       !.semester_courses_map = (1 :> <<<<"T1", FALSE, 1>>, <<"T2", FALSE, 1>>, <<"LB", TRUE, 1>>>>),
       !.theory_rooms = <<"R1", "R2">>,
       !.usage_data =
          [theory |-> AllBut({"R1", "R2"}, TheorySet,
                             {<<"R1", "Thursday", 0>>, <<"R1", "Thursday", 1>>, <<"R1", "Thursday", 3>>,
                              <<"R1", "Thursday", 6>>, <<"R1", "Friday", 2>>, <<"R1", "Friday", 3>>,
                              <<"R1", "Friday", 6>>, <<"R2", "Thursday", 1>>, <<"R2", "Friday", 2>>}),
           lab |-> AllBut({"L1"}, LabSet,
                          {<<"L1", "Thursday", 0>>, <<"L1", "Thursday", 1>>, <<"L1", "Thursday", 2>>,
                           <<"L1", "Thursday", 3>>, <<"L1", "Friday", 3>>})]]

MixedConstraints ==
    <<DefaultConstraints,
      Constraints(8, 6, 0, NoCutoff),
      Constraints(8, 6, 20, NoCutoff),
      Constraints(8, 6, 15, 14),
      Constraints(8, 6, 0, 18),
      Constraints(8, 1, 0, NoCutoff),
      Constraints(8, 1, 15, NoCutoff),
      Constraints(8, 2, 15, NoCutoff),
      Constraints(3, 6, 15, NoCutoff),
      Constraints(3, 6, 0, NoCutoff),
      Constraints(12, 6, 0, NoCutoff)>>

\* one section with two lab courses and two lab rooms
TwoLabs ==
    [Base EXCEPT
       !.semester_courses_map = (1 :> <<<<"LA", TRUE, 1>>, <<"LB", TRUE, 1>>>>),
       !.lab_rooms = <<"L1", "L2">>,
       !.usage_data =
          [theory |-> {},
           lab |-> AllBut({"L1", "L2"}, LabSet,
                          {<<"L1", "Thursday", 0>>, <<"L1", "Thursday", 1>>, <<"L1", "Thursday", 2>>,
                           <<"L1", "Friday", 3>>, <<"L2", "Thursday", 0>>, <<"L2", "Friday", 0>>})]]

\* lab LA restricted to the special lab L2, lab LB unrestricted
SpecialLabs ==
    [Base EXCEPT
       !.semester_courses_map = (1 :> <<<<"LA", TRUE, 1>>, <<"LB", TRUE, 1>>>>),
       !.lab_rooms = <<"L1", "L2">>,
       !.special_lab_rooms = ("LA" :> <<"L2">>),
       !.usage_data =
          [theory |-> {},
           lab |-> AllBut({"L1", "L2"}, LabSet,
                          {<<"L1", "Thursday", 0>>, <<"L1", "Thursday", 2>>, <<"L2", "Thursday", 0>>,
                           <<"L2", "Thursday", 1>>, <<"L2", "Friday", 3>>})]]

\* sections of one semester competing for one theory room and one lab room
Contend ==
    [Base EXCEPT
       !.semester_courses_map = (1 :> <<<<"T1", FALSE, 1>>, <<"LB", TRUE, 1>>>>),
       !.usage_data =
          [theory |-> AllBut({"R1"}, TheorySet,
                             {<<"R1", "Monday", 0>>, <<"R1", "Monday", 1>>, <<"R1", "Tuesday", 0>>}),
           lab |-> AllBut({"L1"}, LabSet,
                          {<<"L1", "Monday", 1>>, <<"L1", "Monday", 2>>, <<"L1", "Wednesday", 0>>})]]

\* two semesters, one section each, competing for one theory room
TwoSemesters ==
    [Base EXCEPT
       !.selected_semesters = <<1, 2>>,
       !.semester_courses_map = (1 :> <<<<"T1", FALSE, 1>>>>) @@ (2 :> <<<<"T2", FALSE, 1>>>>),
       !.section_sizes = (1 :> 50) @@ (2 :> 50),
       !.usage_data =
          [theory |-> AllBut({"R1"}, TheorySet,
                             {<<"R1", "Monday", 0>>, <<"R1", "Monday", 1>>, <<"R1", "Friday", 3>>}),
           lab |-> {}]]

\* demand above the free theory slots
TooFull ==
    [Base EXCEPT
       !.usage_data = [theory |-> AllBut({"R1"}, TheorySet, {<<"R1", "Monday", 0>>}), lab |-> {}]]

\* two sections, one course met once a week, one free theory slot
TwoSectionsOneSlot ==
    [TooFull EXCEPT !.semester_courses_map = (1 :> <<<<"TH", FALSE, 1>>>>),
                    !.section_sizes = (1 :> 100)]

Offering(name, cap, dtl) ==
    [cohort_section |-> name, capacity |-> cap, day_time_list |-> dtl, cohort_room |-> ""]

CohortTheoryLedger ==
    [theory |-> AllBut({"R1"}, TheorySet,
                       {<<"R1", "Monday", 0>>, <<"R1", "Monday", 1>>, <<"R1", "Monday", 2>>,
                        <<"R1", "Monday", 3>>, <<"R1", "Tuesday", 1>>, <<"R1", "Tuesday", 2>>,
                        <<"R1", "Wednesday", 1>>}),
     lab |-> {}]

\* S4: two sections, cohort course COH offered as C1 (Monday, 0) and C2 (Tuesday, 0)
CohortS4 ==
    [Base EXCEPT
       !.semester_courses_map = (1 :> <<<<"COH", FALSE, 1>>, <<"T1", FALSE, 1>>>>),
       !.section_sizes = (1 :> 100),
       !.usage_data = CohortTheoryLedger,
       !.cohort_map = (<<1, "COH">> :> <<Offering("C1", 50, <<<<"Monday", 0>>>>),
                                         Offering("C2", 50, <<<<"Tuesday", 0>>>>)>>),
       !.enable_cohort = TRUE]

\* one offering with room for both sections
CohortShared ==
    [CohortS4 EXCEPT
       !.cohort_map = (<<1, "COH">> :> <<Offering("C1", 100, <<<<"Monday", 0>>>>)>>)]

\* S4 with COH as the only subject of the semester
CohortS4Only ==
    [CohortS4 EXCEPT !.semester_courses_map = (1 :> <<<<"COH", FALSE, 1>>>>)]

\* two sections of 100 students and one offering of capacity 100
CohortBigSections ==
    [CohortShared EXCEPT !.section_sizes = (1 :> 200), !.section_size = 100]

\* a cohort lab offered in the last lab slot of Friday
CohortFridayLab ==
    [Base EXCEPT
       !.semester_courses_map = (1 :> <<<<"CL", TRUE, 1>>, <<"T1", FALSE, 1>>>>),
       !.usage_data =
          [theory |-> AllBut({"R1"}, TheorySet,
                             {<<"R1", "Monday", 0>>, <<"R1", "Friday", 0>>, <<"R1", "Friday", 6>>}),
           lab |-> {}],
       !.cohort_map = (<<1, "CL">> :> <<Offering("C1", 50, <<<<"Friday", 3>>>>)>>),
       !.enable_cohort = TRUE]

CohortFridayLabConstraints ==
    <<DefaultConstraints, Constraints(8, 6, 0, NoCutoff), Constraints(8, 1, 15, NoCutoff)>>

\* a cohort theory course meeting twice a week
CohortTwice(dtl) ==
    [Base EXCEPT
       !.semester_courses_map = (1 :> <<<<"COH", FALSE, 2>>, <<"T1", FALSE, 1>>, <<"T2", FALSE, 1>>>>),
       !.usage_data =
          [theory |-> AllBut({"R1"}, TheorySet,
                             {<<"R1", "Monday", 1>>, <<"R1", "Monday", 2>>, <<"R1", "Tuesday", 2>>,
                              <<"R1", "Wednesday", 2>>}),
           lab |-> {}],
       !.cohort_map = (<<1, "COH">> :> <<Offering("C1", 50, dtl)>>),
       !.enable_cohort = TRUE]

FixedInputs ==
    <<SpecialLabs, TwoLabs, [TwoLabs EXCEPT !.constraints = Constraints(8, 6, 45, NoCutoff)],
      TwoSemesters, TooFull, TwoSectionsOneSlot, CohortS4, CohortS4Only, CohortShared, CohortBigSections,
      CohortTwice(<<<<"Monday", 0>>, <<"Tuesday", 0>>>>),
      CohortTwice(<<<<"Monday", 0>>, <<"Wednesday", 0>>>>)>>

----------------------------------------------------------------------------
(* The call.                                                                *)

InitCfg ==
    \/ \E i \in DOMAIN FixedInputs : cfg = FixedInputs[i]
    \/ \E n \in 1..MaxTimesNeeded :
          cfg = [Base EXCEPT !.semester_courses_map = (1 :> <<<<"TH", FALSE, n>>>>)]
    \/ \E n \in 1..MaxSections : cfg = [Contend EXCEPT !.section_sizes = (1 :> 50 * n)]
    \/ \E i \in DOMAIN MixedConstraints : cfg = [Mixed EXCEPT !.constraints = MixedConstraints[i]]
    \/ \E i \in DOMAIN CohortFridayLabConstraints :
          cfg = [CohortFridayLab EXCEPT !.constraints = CohortFridayLabConstraints[i]]

\* assign_teachers is not running
TeachersIdle ==
    /\ tin = [placements |-> << >>, prefs |-> << >>, clear_existing |-> FALSE]
    /\ tpc = "not_called"
    /\ db_teacher = << >>
    /\ timetable_slots = << >>
    /\ slot_teacher = << >>
    /\ sorted_prefs = << >>
    /\ pref_i = 0
    /\ matching_slots = << >>
    /\ assigned_count = 0
    /\ assigned_slots = {}
    /\ teacher_timeslots = << >>
    /\ teacher_workload = << >>
    /\ assignments_to_save = << >>
    /\ t_result = [status |-> "pending"]

\* neither run_main_schedule nor run_electives is called
NoCall == [n |-> 0, kind |-> "none"]
RunnerIdle ==
    /\ rdb = [tt |-> {}, es |-> {}, runs |-> << >>]
    /\ rcall = NoCall
    /\ rpc = "not_called"
    /\ r_result = [status |-> "pending"]

\* schedule_electives is not running
ElectivesIdle ==
    /\ elec = [electives_list |-> << >>]
    /\ epc = "not_called"
    /\ e_choose = {}
    /\ e_val = {}
    /\ e_result = [status |-> "pending", schedule_map |-> {}, new_allocations |-> {}]

\* schedule_timetable is called directly: there is no driver frame
DirectCall ==
    /\ call = [args |-> cfg, force_hierarchical |-> FALSE, hierarchical_threshold |-> 300,
               cohort_key |-> FALSE]
    /\ dpc = "direct"
    /\ heap = [tops |-> << >>, inners |-> << >>]
    /\ current_usage = 0
    /\ existing_usage = 0
    /\ todo = << >>
    /\ combined_schedule_map = {}
    /\ all_allocations = {}
    /\ result = [status |-> "pending", schedule_map |-> {}, allocations |-> {}]

Init ==
    /\ InitCfg
    /\ pc = "start"
    /\ val = {}
    /\ coh = {}
    /\ schedule_map = {}
    /\ new_allocations = {}
    /\ DirectCall
    /\ ElectivesIdle
    /\ TeachersIdle
    /\ RunnerIdle

\* lines 97-104: raise ValueError
RaiseCapacityError ==
    /\ pc = "start"
    /\ CapacityError = TRUE
    /\ pc' = "capacity_error"
    /\ UNCHANGED <<cfg, val, coh, schedule_map, new_allocations>>
    /\ UNCHANGED outside_solver

\* lines 106-753: the model is built
BuildModel ==
    /\ pc = "start"
    /\ CapacityError = FALSE
    /\ pc' = "search"
    /\ UNCHANGED <<cfg, val, coh, schedule_map, new_allocations>>
    /\ UNCHANGED outside_solver

\* lines 733-749: under cohort has_theory and has_lab are IntVar(0, 2), and
\* the span constraint takes .Not() of them; a CP-SAT binding that admits
\* .Not() on Boolean-domain variables only raises TypeError here, another
\* builds the model: both outcomes are kept
RaiseTypeError ==
    /\ pc = "start"
    /\ CapacityError = FALSE
    /\ CohortOn
    /\ all_sections # {}
    /\ pc' = "type_error"
    /\ UNCHANGED <<cfg, val, coh, schedule_map, new_allocations>>
    /\ UNCHANGED outside_solver

\* the solver sets one variable of `assignments` to 1; it never goes beyond
\* the demand of the (section, course) the variable belongs to
SetAssign(k) ==
    /\ pc = "search"
    /\ k \notin val
    /\ Cardinality(OfCourse(val, k[1], k[2])) < CourseOfKey(k)[3]
    /\ val' = val \cup {k}
    /\ UNCHANGED <<cfg, pc, coh, schedule_map, new_allocations>>
    /\ UNCHANGED outside_solver

\* the solver sets one variable of `assigned_cohort_sec` to 1, at most one
\* per (section, cohort course)
SetCohort(ck) ==
    /\ pc = "search"
    /\ \A x \in coh : ~(x[1] = ck[1] /\ x[2] = ck[2])
    /\ coh' = coh \cup {ck}
    /\ UNCHANGED <<cfg, pc, val, schedule_map, new_allocations>>
    /\ UNCHANGED outside_solver

\* status FEASIBLE/OPTIMAL: the assignment is extracted and returned
ReturnSchedule ==
    /\ pc = "search"
    /\ ModelOK(val, coh) = TRUE
    /\ pc' = "returned"
    /\ schedule_map' = ExtractScheduleMap(val, coh)
    /\ new_allocations' = ExtractAllocations(val, coh)
    /\ UNCHANGED <<cfg, val, coh>>
    /\ UNCHANGED outside_solver

\* the candidate violates a constraint: the solver discards it
RejectCandidate ==
    /\ pc = "search"
    /\ ModelOK(val, coh) = FALSE
    /\ pc' = "rejected"
    /\ UNCHANGED <<cfg, val, coh, schedule_map, new_allocations>>
    /\ UNCHANGED outside_solver

\* lines 776-777: no assignment satisfies the model, `return None`
ReturnNone ==
    /\ pc = "search"
    /\ val = {}
    /\ coh = {}
    /\ Feasible = FALSE
    /\ pc' = "none"
    /\ UNCHANGED <<cfg, val, coh, schedule_map, new_allocations>>
    /\ UNCHANGED outside_solver

Next ==
    \/ RaiseCapacityError
    \/ BuildModel
    \/ RaiseTypeError
    \/ \E k \in assignments : SetAssign(k)
    \/ \E ck \in assigned_cohort_sec : SetCohort(ck)
    \/ ReturnSchedule
    \/ ReturnNone
    \/ RejectCandidate

Spec == Init /\ [][Next]_vars

----------------------------------------------------------------------------
(* Properties of the returned schedule.                                     *)

Returned == pc = "returned"

StartOf(isLab, slot) == IF isLab THEN lab_start_times[slot] ELSE theory_start_times[slot]
EndOf(isLab, slot) == IF isLab THEN lab_end_times[slot] ELSE theory_end_times[slot]

\* the classes a section attends under the solver's values: its normal
\* variables at 1 and every (day, slot) of its chosen cohort offerings,
\* as <<day, slot, is_lab, code, room>>
NormalClasses(sec) == {<<k[3], k[4], KeyIsLab(k), k[2], k[5]>> : k \in {x \in val : x[1] = sec}}

CohortClasses(sec) ==
    UNION {{<<p[1], p[2], CourseIsLab(sec[1], ck[2]), ck[2], "cohort">>
            : p \in Range(CSecOfKey(ck).day_time_list)}
           : ck \in {x \in coh : x[1] = sec}}

SectionClasses(sec) == NormalClasses(sec) \cup CohortClasses(sec)

\* the placements of (section, subject) in the returned schedule_map
Placements(sec, code) == {e \in schedule_map : e[4] = sec /\ e[5] = code}

RoomAllocations == {a \in new_allocations : a[1] \in {"theory", "lab"}}

ClassesIntersect(c1, c2) ==
    /\ c1[1] = c2[1]
    /\ \/ c1[3] = c2[3] /\ c1[2] = c2[2]
       \/ c1[3] /\ ~c2[3] /\ c2[2] \in OverlapList(c1[2])
       \/ c2[3] /\ ~c1[3] /\ c1[2] \in OverlapList(c2[2])

\* C2: in a returned schedule no section has two classes on one day, normal
\* or cohort, whose intervals intersect (same theory slot, same lab slot, or
\* lab slot and theory slot related by LAB_OVERLAP_MAP).
C2_SectionNoOverlap ==
    Returned =>
        \A sec \in all_sections :
            \A c1 \in SectionClasses(sec), c2 \in SectionClasses(sec) :
                c1 # c2 => ~ClassesIntersect(c1, c2)

\* C3: in a returned schedule the number of placements of every (section,
\* subject) in schedule_map, cohort subjects included, equals times_needed.
C3_ExactDemand ==
    Returned =>
        \A sem \in SelSems :
            \A sc \in semester_sections_map2(sem) \X Courses(sem) :
                Cardinality(Placements(sc[1], sc[2][1])) = sc[2][3]

AdjacentOrSameDay(d1, d2) ==
    DayIndex(d1) - DayIndex(d2) \in {0 - 1, 0, 1}

SpreadOverDays(P) == \A e1 \in P, e2 \in P : e1 # e2 => ~AdjacentOrSameDay(e1[1], e2[1])

GapBetween(c1, c2) ==
    IF StartOf(c1[3], c1[2]) <= StartOf(c2[3], c2[2])
    THEN StartOf(c2[3], c2[2]) - EndOf(c1[3], c1[2])
    ELSE StartOf(c1[3], c1[2]) - EndOf(c2[3], c2[2])

SameDayPairs(sec) ==
    {p \in SectionClasses(sec) \X SectionClasses(sec) : p[1] # p[2] /\ p[1][1] = p[2][1]}

\* C5: with minGapMinutes = g > 0, in a returned schedule any two classes of
\* a section on one day are at least g minutes apart, end of the earlier to
\* start of the later, for theory-theory, lab-lab and theory-lab pairs.
C5_MinGap ==
    (Returned /\ min_gap_minutes > 0) =>
        \A sec \in all_sections :
            \A p \in SameDayPairs(sec) : GapBetween(p[1], p[2]) >= min_gap_minutes

\* two theory classes of a section on one day under a gap of 20 minutes
C5_Witness ==
    /\ Returned
    /\ min_gap_minutes = 20
    /\ \E sec \in all_sections : \E p \in SameDayPairs(sec) : ~p[1][3] /\ ~p[2][3]

\* C6: the gap constraint rejects a candidate only when two classes of a
\* section on one day are less than minGapMinutes apart; a theory class and
\* a lab on one day at least that far apart are accepted.
C6_GapOnlyWhenClose ==
    (pc = "rejected" /\ min_gap_minutes > 0 /\ ModelOKExceptGap(val, coh)) =>
        \E sec \in all_sections :
            \E p \in SameDayPairs(sec) : GapBetween(p[1], p[2]) < min_gap_minutes

\* C7: with noClassesAfterHour = h set, every placement of a returned
\* schedule, theory or lab, normal or cohort, ends at or before h*60.
C7_Cutoff ==
    (Returned /\ no_classes_after_hour # NoCutoff) =>
        \A e \in schedule_map :
            EndOf(CourseIsLab(e[4][1], e[5]), e[2]) <= no_classes_after_hour * 60

DaysOf(sec) == {c[1] : c \in SectionClasses(sec)}

\* C8: in a returned schedule every section has classes, normal or cohort,
\* on at most workingDaysPerWeek distinct days.
C8_WorkingDays ==
    Returned => \A sec \in all_sections : Cardinality(DaysOf(sec)) <= working_days_per_week

ClassesOn(sec, d) == {c \in SectionClasses(sec) : c[1] = d}

\* C9: in a returned schedule, on every (section, day) with a class the
\* latest end minus the earliest start is at most maxHoursPerDay*60; and for
\* any candidate the span constraint of a (section, day) without a class holds.
C9_DailySpan ==
    /\ Returned =>
          \A sec \in all_sections, d \in DaySet :
              ClassesOn(sec, d) # {} =>
                  MaxOf({EndOf(c[3], c[2]) : c \in ClassesOn(sec, d)})
                      - MinOf({StartOf(c[3], c[2]) : c \in ClassesOn(sec, d)})
                  <= max_hours_per_day * 60
    /\ pc \in {"search", "rejected", "returned"} =>
          \A sec \in all_sections, d \in DaySet :
              ClassesOn(sec, d) = {} => DaySpanOK(val, coh, sec, d)

\* two classes on one day and an empty day under a 3-hour limit
C9_Witness ==
    /\ Returned
    /\ max_hours_per_day = 3
    /\ \E sec \in all_sections :
          /\ \E d \in DaySet : Cardinality(ClassesOn(sec, d)) = 2
          /\ \E d \in DaySet : ClassesOn(sec, d) = {}

\* C10: the only blackout is (Friday, theory, 3): a returned schedule has no
\* theory placement there, and a lab in lab slot 3 on Friday, normal or
\* cohort, that a section attends is reported in schedule_map.
C10_OnlyFridayTheoryBlackout ==
    Returned =>
        /\ \A e \in schedule_map :
               ~CourseIsLab(e[4][1], e[5]) => ~(e[1] = "Friday" /\ e[2] = 3)
        /\ \A sec \in all_sections :
               \A c \in SectionClasses(sec) :
                   (c[3] /\ c[1] = "Friday" /\ c[2] = 3) =>
                       \E e \in Placements(sec, c[4]) : e[1] = "Friday" /\ e[2] = 3

RoutedTo(sem, code, name) ==
    {ck \in coh : ck[1] \in semester_sections_map2(sem) /\ ck[2] = code /\ ck[3] = name}

\* C15: in a returned schedule, for every cohort offering the number of
\* sections routed to it times the section_size of the call is at most the
\* offering's capacity.
C15_CohortCapacity ==
    (Returned /\ CohortOn) =>
        \A key \in DOMAIN cfg.cohort_map :
            key[1] \in SelSems =>
                \A cs \in CSections(key[1], key[2]) :
                    Cardinality(RoutedTo(key[1], key[2], cs.cohort_section)) * cfg.section_size
                        <= cs.capacity

\* the cohort offerings of scenario S4
S4CohortMap ==
    <<1, "COH">> :> <<Offering("C1", 50, <<<<"Monday", 0>>>>), Offering("C2", 50, <<<<"Tuesday", 0>>>>)>>

IsS4 == CohortOn /\ cfg.cohort_map = S4CohortMap /\ Cardinality(all_sections) = 2

\* C16: scenario S4 is schedulable: the solve does not end without a
\* schedule, and in the schedule returned every section is routed to exactly
\* one cohort label and has no other subject in its cohort slot.
C16_S4Schedulable ==
    IsS4 =>
        /\ pc # "none"
        /\ Returned =>
              \A sec \in all_sections :
                  /\ Cardinality({ck \in coh : ck[1] = sec /\ ck[2] = "COH"}) = 1
                  /\ \A ck \in {x \in coh : x[1] = sec} :
                         \A p \in Range(CSecOfKey(ck).day_time_list) :
                             \A k \in val : ~(k[1] = sec /\ k[3] = p[1] /\ k[4] = p[2] /\ ~KeyIsLab(k))

----------------------------------------------------------------------------
(* The usage ledger as Python objects.  A ledger is a top-level dict from   *)
(* kind to a per-kind dict; the per-kind dict (room -> day -> list of       *)
(* slots) is one object of `heap.inners`, a function from <<room, day>> to  *)
(* the list.  Addresses are positions in heap.tops / heap.inners: copying   *)
(* a dict appends an object, and two top-level dicts that hold the same     *)
(* address share the per-kind dict.                                         *)

KindSeq == <<"theory", "lab", "cohort">>

\* the slots of a set in ascending order
RECURSIVE SortedSeq(_)
SortedSeq(S) ==
    IF S = {} THEN << >> ELSE LET m == MinOf(S) IN <<m>> \o SortedSeq(S \ {m})

\* the per-kind dict that lists exactly the (room, day, slot) of S
LedgerObject(S) ==
    [k \in {<<x[1], x[2]>> : x \in S} |-> SortedSeq({x[3] : x \in {y \in S : y[1] = k[1] /\ y[2] = k[2]}})]

\* the (room, day, slot) a per-kind dict lists
LedgerSlots(obj) ==
    UNION {{<<k[1], k[2], obj[k][i]>> : i \in DOMAIN obj[k]} : k \in DOMAIN obj}

\* the (room, day, slot) of a kind in the ledger at address a
SlotsAt(h, a, kind) ==
    IF kind \in DOMAIN h.tops[a] THEN LedgerSlots(h.inners[h.tops[a][kind]]) ELSE {}

\* what schedule_timetable reads of the ledger it is given
UsageView(h, a) == [theory |-> SlotsAt(h, a, "theory"), lab |-> SlotsAt(h, a, "lab")]

\* the caller's ledger: the top-level dict is object 1
CallerLedger(c) ==
    IF c.cohort_key
    THEN [tops |-> <<[k \in {"theory", "lab", "cohort"} |->
                        IF k = "theory" THEN 1 ELSE IF k = "lab" THEN 2 ELSE 3]>>,
          inners |-> <<LedgerObject(c.args.usage_data.theory), LedgerObject(c.args.usage_data.lab), << >> >>]
    ELSE [tops |-> <<[k \in {"theory", "lab"} |-> IF k = "theory" THEN 1 ELSE 2]>>,
          inners |-> <<LedgerObject(c.args.usage_data.theory), LedgerObject(c.args.usage_data.lab)>>]

\* dict.copy(): a new top-level dict that refers to the same per-kind dicts
dict_copy(h, a) ==
    [heap |-> [h EXCEPT !.tops = Append(h.tops, h.tops[a])], addr |-> Len(h.tops) + 1]

\* a copy that shares the per-kind dicts with the original
CopyTopOnly(h, a) == dict_copy(h, a)

\* copy.deepcopy(): a new top-level dict and a new copy of every per-kind dict
deepcopy(h, a) ==
    LET top == h.tops[a]
        ks == SelectSeq(KindSeq, LAMBDA k : k \in DOMAIN top)
        n == Len(h.inners)
        newtop == [k \in DOMAIN top |-> n + (CHOOSE i \in 1..Len(ks) : ks[i] = k)]
    IN [heap |-> [tops |-> Append(h.tops, newtop),
                  inners |-> h.inners \o [i \in 1..Len(ks) |-> h.inners[top[ks[i]]]]],
        addr |-> Len(h.tops) + 1]

\* if kind not in usage: usage[kind] = {}
EnsureKind(h, a, kind) ==
    IF kind \in DOMAIN h.tops[a] THEN h
    ELSE [tops |-> [h.tops EXCEPT ![a] = @ @@ (kind :> Len(h.inners) + 1)],
          inners |-> Append(h.inners, << >>)]

\* lines 184-191 on one per-kind dict
AddSlot(obj, room, day, slot) ==
    LET k == <<room, day>>
        withday == IF k \in DOMAIN obj THEN obj ELSE obj @@ (k :> << >>)
    IN IF \E i \in DOMAIN withday[k] : withday[k][i] = slot
       THEN withday
       ELSE [withday EXCEPT ![k] = Append(@, slot)]

\* the loop of lines 183-191 over the allocations of kinds the ledger has
RECURSIVE AddAll(_, _, _)
AddAll(h, a, allocs) ==
    IF allocs = {} THEN h
    ELSE LET x == CHOOSE y \in allocs : \A z \in allocs : y[4] <= z[4]
             i == h.tops[a][x[1]]
         IN AddAll([h EXCEPT !.inners[i] = AddSlot(@, x[2], x[3], x[4])], a, allocs \ {x})

\* merge_usage_data: `raised` when usage[rtype] has no such key (the cohort
\* allocations come last in new_allocations, so the theory and lab ones are
\* already in the copy when the KeyError is raised)
merge_usage_data(h, a, allocs) ==
    LET c == deepcopy(h, a)
        h1 == EnsureKind(EnsureKind(c.heap, c.addr, "theory"), c.addr, "lab")
        known == {x \in allocs : x[1] \in DOMAIN h1.tops[c.addr]}
    IN [heap |-> AddAll(h1, c.addr, known), addr |-> c.addr, raised |-> known # allocs]

----------------------------------------------------------------------------
(* schedule_with_auto_optimization and schedule_hierarchical.               *)

\* sorted(selected_semesters)
RECURSIVE sorted(_)
sorted(seq) ==
    IF seq = << >> THEN << >>
    ELSE LET i == CHOOSE j \in DOMAIN seq : \A k \in DOMAIN seq : seq[j] <= seq[k]
         IN <<seq[i]>> \o sorted(SubSeq(seq, 1, i - 1) \o SubSeq(seq, i + 1, Len(seq)))

\* sum(len(semester_courses_map.get(s, [])) for s in selected_semesters)
total_courses(c) ==
    SumOver(DOMAIN c.args.selected_semesters,
            [i \in DOMAIN c.args.selected_semesters |->
                LET s == c.args.selected_semesters[i]
                IN IF s \in DOMAIN c.args.semester_courses_map
                   THEN Len(c.args.semester_courses_map[s]) ELSE 0])

\* more courses than the threshold, counted strictly
AtLeastThreshold(num_semesters, total, threshold) == total >= threshold /\ num_semesters > 1

should_use_hierarchical_solving(num_semesters, total, threshold) ==
    total > threshold /\ num_semesters > 1

use_hierarchical(c) ==
    \/ c.force_hierarchical
    \/ should_use_hierarchical_solving(Len(c.args.selected_semesters), total_courses(c),
                                       c.hierarchical_threshold)

\* dict.update(): an entry of the second map replaces the entry with its key
DictUpdate(m, n) ==
    {e \in m : \A f \in n : <<e[1], e[2], e[3]>> # <<f[1], f[2], f[3]>>} \cup n

Pending == [status |-> "pending", schedule_map |-> {}, allocations |-> {}]
ReturnedNone == [status |-> "none", schedule_map |-> {}, allocations |-> {}]
Raised == [status |-> "raised", schedule_map |-> {}, allocations |-> {}]

\* lines 194-228: the approach is chosen
AutoDecide ==
    /\ UNCHANGED outside_driver
    /\ dpc = "entry"
    /\ dpc' = IF use_hierarchical(call) THEN "hierarchical" ELSE "standard_call"
    /\ UNCHANGED <<svars, call, heap, current_usage, existing_usage, todo,
                   combined_schedule_map, all_allocations, result>>

\* lines 256-275: one call of schedule_timetable with the arguments as given
StandardSolve ==
    /\ UNCHANGED outside_driver
    /\ dpc = "standard_call"
    /\ dpc' = "standard"
    /\ cfg' = [call.args EXCEPT !.usage_data = UsageView(heap, 1)]
    /\ pc' = "start"
    /\ val' = {}
    /\ coh' = {}
    /\ schedule_map' = {}
    /\ new_allocations' = {}
    /\ UNCHANGED <<call, heap, current_usage, existing_usage, todo,
                   combined_schedule_map, all_allocations, result>>

\* the call returns what schedule_timetable returned
StandardReturn ==
    /\ UNCHANGED outside_driver
    /\ dpc = "standard"
    /\ pc \in {"returned", "none"}
    /\ dpc' = "done"
    /\ result' = IF pc = "none" THEN ReturnedNone
                 ELSE [status |-> "ok", schedule_map |-> schedule_map, allocations |-> new_allocations]
    /\ UNCHANGED <<svars, call, heap, current_usage, existing_usage, todo,
                   combined_schedule_map, all_allocations>>

\* lines 57-74 of schedule_hierarchical
HierInit ==
    /\ UNCHANGED outside_driver
    /\ dpc = "hierarchical"
    /\ dpc' = "loop"
    /\ LET c == dict_copy(heap, 1)
       IN /\ heap' = c.heap
          /\ current_usage' = c.addr
    /\ todo' = sorted(call.args.selected_semesters)
    /\ combined_schedule_map' = {}
    /\ all_allocations' = {}
    /\ UNCHANGED <<svars, call, existing_usage, result>>

\* lines 85-124: the next semester is given to schedule_timetable
HierSolve ==
    /\ UNCHANGED outside_driver
    /\ dpc = "loop"
    /\ todo # << >>
    /\ dpc' = "solving"
    /\ cfg' = [call.args EXCEPT !.selected_semesters = <<Head(todo)>>,
                                !.usage_data = UsageView(heap, current_usage)]
    /\ pc' = "start"
    /\ val' = {}
    /\ coh' = {}
    /\ schedule_map' = {}
    /\ new_allocations' = {}
    /\ UNCHANGED <<call, heap, current_usage, existing_usage, todo,
                   combined_schedule_map, all_allocations, result>>

\* lines 128-139: the semester has no schedule, return None
HierFail ==
    /\ UNCHANGED outside_driver
    /\ dpc = "solving"
    /\ pc = "none"
    /\ dpc' = "done"
    /\ result' = ReturnedNone
    /\ UNCHANGED <<svars, call, heap, current_usage, existing_usage, todo,
                   combined_schedule_map, all_allocations>>

\* lines 141-149: the semester's result is merged
HierMerge ==
    /\ UNCHANGED outside_driver
    /\ dpc = "solving"
    /\ pc = "returned"
    /\ combined_schedule_map' = DictUpdate(combined_schedule_map, schedule_map)
    /\ all_allocations' = all_allocations \cup new_allocations
    /\ existing_usage' = current_usage
    /\ LET m == merge_usage_data(heap, current_usage, new_allocations)
       IN /\ heap' = m.heap
          /\ IF m.raised
             THEN /\ dpc' = "key_error"
                  /\ result' = Raised
                  /\ UNCHANGED <<current_usage, todo>>
             ELSE /\ dpc' = "loop"
                  /\ current_usage' = m.addr
                  /\ todo' = Tail(todo)
                  /\ UNCHANGED result
    /\ UNCHANGED <<svars, call>>

\* line 157: every semester is solved
HierReturn ==
    /\ UNCHANGED outside_driver
    /\ dpc = "loop"
    /\ todo = << >>
    /\ dpc' = "done"
    /\ result' = [status |-> "ok", schedule_map |-> combined_schedule_map,
                  allocations |-> all_allocations]
    /\ UNCHANGED <<svars, call, heap, current_usage, existing_usage, todo,
                   combined_schedule_map, all_allocations>>

\* an exception of schedule_timetable leaves the driver
Propagate ==
    /\ UNCHANGED outside_driver
    /\ dpc \in {"solving", "standard"}
    /\ pc \in {"capacity_error", "type_error"}
    /\ dpc' = "raised"
    /\ result' = Raised
    /\ UNCHANGED <<svars, call, heap, current_usage, existing_usage, todo,
                   combined_schedule_map, all_allocations>>

\* the calls of schedule_with_auto_optimization

\* the semesters given in descending order
TwoSemestersDescending == [TwoSemesters EXCEPT !.selected_semesters = <<2, 1>>]

\* two semesters, one usable free slot: the second semester has no schedule
TwoSemestersTight ==
    [TwoSemestersDescending EXCEPT
       !.usage_data =
          [theory |-> AllBut({"R1"}, TheorySet, {<<"R1", "Monday", 0>>, <<"R1", "Friday", 3>>}),
           lab |-> {}]]

\* a theory course and a lab in semester 1, a lab in semester 2, one lab room
TwoSemestersLabs ==
    [Base EXCEPT
       !.selected_semesters = <<1, 2>>,
       !.semester_courses_map = (1 :> <<<<"T1", FALSE, 1>>, <<"LA", TRUE, 1>>>>) @@ (2 :> <<<<"LB", TRUE, 1>>>>),
       !.section_sizes = (1 :> 50) @@ (2 :> 50),
       !.usage_data =
          [theory |-> AllBut({"R1"}, TheorySet, {<<"R1", "Monday", 0>>, <<"R1", "Tuesday", 0>>}),
           lab |-> AllBut({"L1"}, LabSet, {<<"L1", "Wednesday", 0>>, <<"L1", "Thursday", 0>>})]]

DriverInputs ==
    <<TwoSemestersDescending, TwoSemestersTight, TwoSemestersLabs, TooFull, CohortS4>>

Thresholds == {1, 2, 300}

InitCall ==
    \E i \in DOMAIN DriverInputs : \E f \in BOOLEAN : \E t \in Thresholds : \E ck \in BOOLEAN :
        call = [args |-> DriverInputs[i], force_hierarchical |-> f,
                hierarchical_threshold |-> t, cohort_key |-> ck]

InitOptimized ==
    /\ InitCall
    /\ dpc = "entry"
    /\ heap = CallerLedger(call)
    /\ current_usage = 0
    /\ existing_usage = 0
    /\ todo = << >>
    /\ combined_schedule_map = {}
    /\ all_allocations = {}
    /\ result = Pending
    /\ cfg = call.args
    /\ pc = "not_called"
    /\ val = {}
    /\ coh = {}
    /\ schedule_map = {}
    /\ new_allocations = {}
    /\ ElectivesIdle
    /\ TeachersIdle
    /\ RunnerIdle

NextOptimized ==
    \/ AutoDecide
    \/ StandardSolve
    \/ StandardReturn
    \/ HierInit
    \/ HierSolve
    \/ HierFail
    \/ HierMerge
    \/ HierReturn
    \/ Propagate
    \/ RaiseCapacityError
    \/ BuildModel
    \/ RaiseTypeError
    \/ \E k \in assignments : SetAssign(k)
    \/ \E ck \in assigned_cohort_sec : SetCohort(ck)
    \/ ReturnSchedule
    \/ ReturnNone
    \/ RejectCandidate

SpecOptimized == InitOptimized /\ [][NextOptimized]_vars

----------------------------------------------------------------------------
(* Properties of the driver.                                                *)

\* schedule_hierarchical has been entered
HierarchicalUsed == dpc = "hierarchical" \/ current_usage # 0

\* the standard branch has been taken
StandardUsed == dpc \notin {"entry", "hierarchical"} /\ current_usage = 0

\* the (room, day, slot) of a kind among a set of allocations
AllocSlots(allocs, kind) == {<<a[2], a[3], a[4]>> : a \in {x \in allocs : x[1] = kind}}

\* the semester of an allocation's section
AllocSem(a) == a[5][1][1]

\* the loop of schedule_hierarchical without the merge's exception
HierarchicalLoopOK ==
    (HierarchicalUsed /\ dpc # "key_error") =>
        /\ \A i, j \in DOMAIN todo : i < j => todo[i] < todo[j]
        /\ \A a \in all_allocations : \A i \in DOMAIN todo : AllocSem(a) < todo[i]
        /\ dpc = "solving" =>
              /\ cfg.selected_semesters = <<Head(todo)>>
              /\ \A kind \in {"theory", "lab"} :
                    cfg.usage_data[kind] =
                        call.args.usage_data[kind] \cup AllocSlots(all_allocations, kind)
        /\ result.status = "ok" =>
              /\ \A a, b \in result.allocations :
                    (a[1] = b[1] /\ a[2] = b[2] /\ a[3] = b[3] /\ a[4] = b[4]) => a = b
              /\ \A a \in result.allocations :
                    a[1] \in {"theory", "lab"} => <<a[2], a[3], a[4]>> \notin call.args.usage_data[a[1]]
              /\ {<<e[1], e[2], e[3], e[4], e[5]>> : e \in result.schedule_map}
                    = {<<a[3], a[4], a[2], a[5][1], a[5][2]>> : a \in result.allocations}
        /\ result.status = "none" => result.schedule_map = {} /\ result.allocations = {}

\* C12: schedule_hierarchical solves the selected semesters one at a time in
\* ascending order, each solve is given the initial ledger plus the
\* allocations of the semesters solved before it, the combined result is the
\* union of the per-semester placements with no (room, day, slot) used twice
\* or taken from the initial ledger, a semester without a schedule ends the
\* loop with None, and every semester whose solve returned a schedule is
\* merged and followed by the next one.
C12_HierarchicalLoop == HierarchicalLoopOK /\ dpc # "key_error"

\* the decision rule, from the arguments of the call
RuleSaysHierarchical ==
    \/ call.force_hierarchical
    \/ /\ Cardinality({<<s, i>> \in Range(call.args.selected_semesters) \X (1..3) :
                          i \in DOMAIN call.args.semester_courses_map[s]})
            > call.hierarchical_threshold
       /\ Len(call.args.selected_semesters) > 1

\* C13: schedule_with_auto_optimization enters schedule_hierarchical if and
\* only if force_hierarchical is set, or the courses of the selected
\* semesters number strictly more than the threshold and more than one
\* semester is selected; otherwise it makes one call of schedule_timetable
\* over all selected semesters.
C13_AutoChoice ==
    (dpc \notin {"entry", "direct"}) =>
        /\ HierarchicalUsed <=> RuleSaysHierarchical
        /\ StandardUsed <=> ~RuleSaysHierarchical
        /\ (StandardUsed /\ dpc # "standard_call") =>
              /\ cfg.selected_semesters = call.args.selected_semesters
              /\ combined_schedule_map = {} /\ todo = << >>

\* a finished hierarchical run that was not forced, and a standard run whose
\* course count equals the threshold is its mirror image
C13_Witness ==
    /\ dpc = "done"
    /\ HierarchicalUsed
    /\ ~call.force_hierarchical
    /\ result.status = "ok"
    /\ Len(call.args.selected_semesters) = 2

\* no list of the per-kind dict holds a slot twice
NoSlotTwice(obj) ==
    \A k \in DOMAIN obj : \A i, j \in DOMAIN obj[k] : obj[k][i] = obj[k][j] => i = j

\* the per-kind dict of a ledger
InnerAt(h, a, kind) == h.inners[h.tops[a][kind]]

\* a merge has just completed: existing_usage was merged with new_allocations
\* into current_usage
JustMerged == dpc = "loop" /\ existing_usage # 0

\* C14: merge_usage_data is additive and idempotent and leaves its input
\* alone: after a merge the theory and lab slots of the result are those of
\* the ledger passed in plus those of the allocations, no list holds a slot
\* twice, merging the same allocations again gives an equal ledger, the
\* ledger passed in still reads as it did when the solve received it, and
\* the caller's ledger is never changed.
C14_Merge ==
    /\ dpc # "direct" =>
          /\ heap.tops[1] = CallerLedger(call).tops[1]
          /\ \A kind \in DOMAIN heap.tops[1] :
                InnerAt(heap, 1, kind) = InnerAt(CallerLedger(call), 1, kind)
    /\ dpc = "key_error" => UsageView(heap, existing_usage) = cfg.usage_data
    /\ JustMerged =>
          /\ UsageView(heap, existing_usage) = cfg.usage_data
          /\ \A kind \in {"theory", "lab"} :
                /\ SlotsAt(heap, current_usage, kind)
                      = SlotsAt(heap, existing_usage, kind) \cup AllocSlots(new_allocations, kind)
                /\ NoSlotTwice(InnerAt(heap, current_usage, kind))
          /\ LET again == merge_usage_data(heap, current_usage, new_allocations)
             IN /\ ~again.raised
                /\ \A kind \in DOMAIN heap.tops[current_usage] :
                      InnerAt(again.heap, again.addr, kind) = InnerAt(heap, current_usage, kind)
                /\ DOMAIN again.heap.tops[again.addr] = DOMAIN heap.tops[current_usage]

\* the second semester's merge: theory and lab allocations of two semesters
\* are in the ledger
C14_Witness ==
    /\ JustMerged
    /\ todo = << >>
    /\ \E a, b \in all_allocations : a[1] = "theory" /\ b[1] = "lab"
    /\ new_allocations # {}
    /\ new_allocations # all_allocations

----------------------------------------------------------------------------
(* schedule_electives.  An elective is a record [code, sections_count,      *)
(* can_theory, can_lab]; an elective section is <<code, idx>>; a key of     *)
(* `assignments` is <<code, idx, kind, room, day, slot>>.  As for           *)
(* schedule_timetable, the solver is a search that sets variables to 1 and  *)
(* evaluates the constraints of the model on the candidate.                 *)

e_list == Range(elec.electives_list)

\* (code, idx) for idx in range(sections_count)
ESections == UNION {{<<e.code, i>> : i \in 0..(e.sections_count - 1)} : e \in e_list}

ElectiveOf(sec) == CHOOSE e \in e_list : e.code = sec[1]

\* every free theory (room, day, slot), the used ones included
AllTheoryCombos ==
    {x \in Range(elec.theory_rooms) \X DaySet \X TheorySet : ~FridaySkip(x[2], x[3])}

\* lines 41-52
theory_combos ==
    {x \in Range(elec.theory_rooms) \X DaySet \X TheorySet :
        ~FridaySkip(x[2], x[3]) /\ x \notin elec.usage_data.theory}

\* lines 54-61
lab_combos ==
    {x \in Range(elec.lab_rooms) \X DaySet \X LabSet : x \notin elec.usage_data.lab}

ETheoryKeys(sec) == {<<sec[1], sec[2], "theory", c[1], c[2], c[3]>> : c \in theory_combos}
ELabKeys(sec) == {<<sec[1], sec[2], "lab", c[1], c[2], c[3]>> : c \in lab_combos}

\* the keys of `assignments`
e_assignments == UNION {ETheoryKeys(sec) \cup ELabKeys(sec) : sec \in ESections}

EOf(v, sec, kind) == {k \in v : k[1] = sec[1] /\ k[2] = sec[2] /\ k[3] = kind}

\* the value of choose_theory[(code, idx)]
choose_var(ch, sec) == IF sec \in ch THEN 1 ELSE 0

\* lines 83-88
FlagsOK(ch) ==
    \A sec \in ESections :
        /\ ~ElectiveOf(sec).can_theory => choose_var(ch, sec) = 0
        /\ ~ElectiveOf(sec).can_lab => choose_var(ch, sec) = 1

\* lines 102 and 109: var <= choose_var, var <= 1 - choose_var
ShapeLinkOK(v, ch) ==
    \A k \in v :
        IF k[3] = "theory" THEN 1 <= choose_var(ch, <<k[1], k[2]>>)
        ELSE 1 <= 1 - choose_var(ch, <<k[1], k[2]>>)

\* lines 121-129 leave day_assigned one value: 1 iff a theory variable of the
\* day is 1
e_day_assigned(v, sec, d) ==
    IF \E k \in EOf(v, sec, "theory") : k[5] = d THEN 1 ELSE 0

\* lines 116-119
EDistinctDaysOK(v, ch) ==
    \A sec \in ESections :
        SumOver(DaySet, [d \in DaySet |-> e_day_assigned(v, sec, d)])
            = elec.theory_needed * choose_var(ch, sec)

\* consecutive days are allowed
ConsecutiveDaysAllowed(v, ch) == TRUE

\* lines 137-151
NoConsecutiveDaysOK(v, ch) ==
    \A sec \in ESections : \A i \in 1..(Len(DAYS) - 1) :
        e_day_assigned(v, sec, DAYS[i]) + e_day_assigned(v, sec, DAYS[i + 1])
            <= 1 + (1 - choose_var(ch, sec))

\* lines 156-167
ETimesNeededOK(v, ch) ==
    \A sec \in ESections :
        /\ Cardinality(EOf(v, sec, "theory")) = elec.theory_needed * choose_var(ch, sec)
        /\ Cardinality(EOf(v, sec, "lab")) = elec.lab_needed * (1 - choose_var(ch, sec))

\* any number of sections in a room at a time
DoubleBookingAllowed(v) == TRUE

\* lines 169-187
NoDoubleBookingOK(v) ==
    \A k1, k2 \in v :
        (k1[3] = k2[3] /\ k1[4] = k2[4] /\ k1[5] = k2[5] /\ k1[6] = k2[6]) => k1 = k2

ElectivesOK(v, ch) ==
    /\ FlagsOK(ch)
    /\ ShapeLinkOK(v, ch)
    /\ EDistinctDaysOK(v, ch)
    /\ NoConsecutiveDaysOK(v, ch)
    /\ ETimesNeededOK(v, ch)
    /\ NoDoubleBookingOK(v)

\* the candidates that meet the times-needed constraints: per section either
\* theory_needed theory keys with choose_theory 1 or lab_needed lab keys
RECURSIVE ECandidates(_)
ECandidates(Secs) ==
    IF Secs = {} THEN {<<{}, {}>>}
    ELSE LET sec == CHOOSE x \in Secs : TRUE
             own == {<<{sec}, T>> : T \in KSubsets(ETheoryKeys(sec), elec.theory_needed)}
                    \cup {<<{}, L>> : L \in KSubsets(ELabKeys(sec), elec.lab_needed)}
         IN {<<o[1] \cup r[1], o[2] \cup r[2]>> : <<o, r>> \in own \X ECandidates(Secs \ {sec})}

\* status FEASIBLE/OPTIMAL is possible
ElectivesFeasible == \E c \in ECandidates(ESections) : ElectivesOK(c[2], c[1])

\* lines 194-211: schedule_map[(code, idx)] = assigned_slots
EScheduleMap(v) ==
    [sec \in ESections |-> {<<k[3], k[4], k[5], k[6]>> : k \in EOf(v, sec, "theory") \cup EOf(v, sec, "lab")}]

\* lines 212-213, the occupant "Elective-<code>-A<idx+1>" as <<code, idx + 1>>
ENewAllocations(v) == {<<k[3], k[4], k[5], k[6], <<k[1], k[2] + 1>>>> : k \in v}

\* the solver sets a choose_theory variable to 1
SetChooseTheory(sec) ==
    /\ epc = "search"
    /\ sec \notin e_choose
    /\ e_choose' = e_choose \cup {sec}
    /\ UNCHANGED <<elec, epc, e_val, e_result>>
    /\ UNCHANGED outside_electives

\* the solver sets a variable of `assignments` to 1, never beyond the number
\* of placements a section can need
SetElective(k) ==
    /\ epc = "search"
    /\ k \notin e_val
    /\ Cardinality(EOf(e_val, <<k[1], k[2]>>, k[3]))
          < (IF k[3] = "theory" THEN elec.theory_needed ELSE elec.lab_needed)
    /\ e_val' = e_val \cup {k}
    /\ UNCHANGED <<elec, epc, e_choose, e_result>>
    /\ UNCHANGED outside_electives

\* lines 189-215: the candidate satisfies the model and is returned
ReturnElectives ==
    /\ epc = "search"
    /\ ElectivesOK(e_val, e_choose) = TRUE
    /\ epc' = "returned"
    /\ e_result' = [status |-> "ok", schedule_map |-> EScheduleMap(e_val),
                    new_allocations |-> ENewAllocations(e_val)]
    /\ UNCHANGED <<elec, e_choose, e_val>>
    /\ UNCHANGED outside_electives

\* the candidate violates a constraint: the solver discards it
RejectElectives ==
    /\ epc = "search"
    /\ ElectivesOK(e_val, e_choose) = FALSE
    /\ epc' = "rejected"
    /\ UNCHANGED <<elec, e_choose, e_val, e_result>>
    /\ UNCHANGED outside_electives

\* lines 191-192: return None
ElectivesNone ==
    /\ epc = "search"
    /\ e_val = {}
    /\ e_choose = {}
    /\ ElectivesFeasible = FALSE
    /\ epc' = "none"
    /\ e_result' = [status |-> "none", schedule_map |-> {}, new_allocations |-> {}]
    /\ UNCHANGED <<elec, e_choose, e_val>>
    /\ UNCHANGED outside_electives

MaxElectiveSections == 2   \* sections_count in the scaled inputs

Elective(code, n, ct, cl) == [code |-> code, sections_count |-> n, can_theory |-> ct, can_lab |-> cl]

\* one elective; R1 free on Monday, Wednesday (two slots) and at the Friday
\* midday slot, L1 free at one slot
ElectivesBase ==
    [electives_list |-> <<Elective("EA", 1, TRUE, TRUE)>>,
     usage_data |->
        [theory |-> AllBut({"R1"}, TheorySet,
                           {<<"R1", "Monday", 0>>, <<"R1", "Wednesday", 0>>, <<"R1", "Wednesday", 1>>,
                            <<"R1", "Friday", 3>>}),
         lab |-> AllBut({"L1"}, LabSet, {<<"L1", "Thursday", 0>>})],
     theory_rooms |-> <<"R1">>,
     lab_rooms |-> <<"L1">>,
     theory_needed |-> 2,
     lab_needed |-> 1]

\* a theory-only and a lab-only elective; R1 also free on Tuesday, next to
\* Monday and Wednesday
ElectivesTwo ==
    [ElectivesBase EXCEPT
       !.electives_list = <<Elective("EA", 1, TRUE, FALSE), Elective("EB", 1, FALSE, TRUE)>>,
       !.usage_data =
          [theory |-> AllBut({"R1"}, TheorySet,
                             {<<"R1", "Monday", 0>>, <<"R1", "Tuesday", 0>>, <<"R1", "Wednesday", 0>>}),
           lab |-> AllBut({"L1"}, LabSet, {<<"L1", "Thursday", 0>>, <<"L1", "Thursday", 1>>})]]

\* one theory placement and two lab placements per section, two rooms of each kind
ElectivesOneTheoryTwoLabs ==
    [ElectivesBase EXCEPT
       !.electives_list = <<Elective("EA", 1, TRUE, TRUE), Elective("EB", 1, TRUE, TRUE)>>,
       !.usage_data =
          [theory |-> AllBut({"R1", "R2"}, TheorySet, {<<"R1", "Monday", 0>>, <<"R2", "Monday", 0>>}),
           lab |-> AllBut({"L1", "L2"}, LabSet, {<<"L1", "Thursday", 0>>, <<"L2", "Thursday", 0>>})],
       !.theory_rooms = <<"R1", "R2">>,
       !.lab_rooms = <<"L1", "L2">>,
       !.theory_needed = 1,
       !.lab_needed = 2]

InitElec ==
    \/ \E n \in 1..MaxElectiveSections : \E ct \in BOOLEAN : \E cl \in BOOLEAN :
          elec = [ElectivesBase EXCEPT !.electives_list = <<Elective("EA", n, ct, cl)>>]
    \/ elec = ElectivesTwo
    \/ elec = ElectivesOneTheoryTwoLabs

\* nothing else runs while schedule_electives does
SolverIdle ==
    /\ cfg = Base
    /\ pc = "not_called"
    /\ val = {}
    /\ coh = {}
    /\ schedule_map = {}
    /\ new_allocations = {}
    /\ call = [args |-> Base, force_hierarchical |-> FALSE, hierarchical_threshold |-> 300,
               cohort_key |-> FALSE]
    /\ dpc = "not_called"
    /\ heap = [tops |-> << >>, inners |-> << >>]
    /\ current_usage = 0
    /\ existing_usage = 0
    /\ todo = << >>
    /\ combined_schedule_map = {}
    /\ all_allocations = {}
    /\ result = Pending

InitElectives ==
    /\ InitElec
    /\ epc = "search"
    /\ e_choose = {}
    /\ e_val = {}
    /\ e_result = [status |-> "pending", schedule_map |-> {}, new_allocations |-> {}]
    /\ SolverIdle
    /\ TeachersIdle
    /\ RunnerIdle

NextElectives ==
    \/ \E sec \in ESections : SetChooseTheory(sec)
    \/ \E k \in e_assignments : SetElective(k)
    \/ ReturnElectives
    \/ RejectElectives
    \/ ElectivesNone

SpecElectives == InitElectives /\ [][NextElectives]_vars

----------------------------------------------------------------------------
(* Properties of schedule_electives.                                        *)

EReturned == epc = "returned"

\* the placements of a section of one kind in the returned schedule_map
EPlaced(sec, kind) == {p \in e_result.schedule_map[sec] : p[1] = kind}

TheoryShape(sec) ==
    /\ Cardinality(EPlaced(sec, "theory")) = elec.theory_needed
    /\ EPlaced(sec, "lab") = {}
    /\ \A p, q \in EPlaced(sec, "theory") :
          p # q => (DayIndex(p[3]) - DayIndex(q[3]) >= 2 \/ DayIndex(q[3]) - DayIndex(p[3]) >= 2)

LabShape(sec) ==
    /\ Cardinality(EPlaced(sec, "lab")) = elec.lab_needed
    /\ EPlaced(sec, "theory") = {}

\* C17: every elective section of a returned schedule has exactly one shape:
\* theory_needed theory placements on pairwise distinct, non-adjacent days and
\* no lab, allowed only when can_theory, or lab_needed lab placements and no
\* theory, allowed only when can_lab; an elective with both flags false has
\* no schedule.
C17_ElectiveShape ==
    /\ EReturned =>
          \A sec \in ESections :
              /\ TheoryShape(sec) \/ LabShape(sec)
              /\ ~(TheoryShape(sec) /\ LabShape(sec))
              /\ TheoryShape(sec) => ElectiveOf(sec).can_theory
              /\ LabShape(sec) => ElectiveOf(sec).can_lab
    /\ (\E e \in e_list : ~e.can_theory /\ ~e.can_lab /\ e.sections_count > 0) =>
          epc \in {"search", "rejected", "none"}

\* one section got the theory shape and another the lab shape
C17_Witness ==
    /\ EReturned
    /\ \E s1, s2 \in ESections : TheoryShape(s1) /\ LabShape(s2) /\ elec.theory_needed = 2

\* C18: in a returned elective schedule no (room, day, slot) of a kind is
\* used by two elective sections, and every placement uses a slot that is
\* free in the ledger given to the call.
C18_ElectiveRooms ==
    EReturned =>
        /\ \A a, b \in e_result.new_allocations :
              (a[1] = b[1] /\ a[2] = b[2] /\ a[3] = b[3] /\ a[4] = b[4]) => a[5] = b[5]
        /\ \A a \in e_result.new_allocations : <<a[2], a[3], a[4]>> \notin elec.usage_data[a[1]]

\* two sections hold placements of the same kind, next to an occupied ledger
C18_Witness ==
    /\ EReturned
    /\ \E a, b \in e_result.new_allocations : a[5] # b[5] /\ a[1] = b[1]
    /\ elec.usage_data.theory # {}
    /\ elec.usage_data.lab # {}

----------------------------------------------------------------------------
(* TeacherAssigner.assign_teachers.  A placement (TimetableSlot row) is a   *)
(* record [id, code, is_lab, section, timeslot], its subject being the pair *)
(* (code, is_lab) and its timeslot the id of a TimeSlot row, of which the   *)
(* catalogue holds one per day, time and slot type; a preference is a       *)
(* record [teacher, course_code, sections_count, can_theory, can_lab];      *)
(* teachers are 1..Len(TeacherNames) and 0 is None.                         *)

TeacherNames == <<"Alice", "Bob">>
Teachers == DOMAIN TeacherNames

\* the strings that occur as course codes, in the order Python compares them
CodeOrder == <<"*", "CS201", "CS202">>
CodeRank(code) == CHOOSE i \in DOMAIN CodeOrder : CodeOrder[i] = code

PlacementOf(id) == CHOOSE p \in Range(tin.placements) : p.id = id

\* lines 165-179
priority_key(pref) ==
    LET is_wildcard_course == pref.course_code = "*"
        is_wildcard_type == pref.can_theory /\ pref.can_lab
        priority == IF ~is_wildcard_course /\ ~is_wildcard_type THEN 0
                    ELSE IF ~is_wildcard_course /\ is_wildcard_type THEN 1
                    ELSE IF is_wildcard_course /\ ~is_wildcard_type THEN 2
                    ELSE 3
    IN <<priority, CodeRank(pref.course_code), pref.teacher>>

\* tuple comparison a < b
KeyLess(a, b) ==
    \/ a[1] < b[1]
    \/ a[1] = b[1] /\ a[2] < b[2]
    \/ a[1] = b[1] /\ a[2] = b[2] /\ a[3] < b[3]

\* the preferences in the order they were given
Unsorted(prefs) == prefs

\* sorted(prefs, key=priority_key): stable, the first of equal keys stays first
RECURSIVE sort_preferences_by_priority(_)
sort_preferences_by_priority(prefs) ==
    IF prefs = << >> THEN << >>
    ELSE LET i == CHOOSE j \in DOMAIN prefs :
                     /\ \A k \in DOMAIN prefs : ~KeyLess(priority_key(prefs[k]), priority_key(prefs[j]))
                     /\ \A k \in 1..(j - 1) : KeyLess(priority_key(prefs[j]), priority_key(prefs[k]))
         IN <<prefs[i]>> \o sort_preferences_by_priority(SubSeq(prefs, 1, i - 1) \o SubSeq(prefs, i + 1, Len(prefs)))

\* lines 202-221: does the placement match the preference?
Matches(pref, id) ==
    LET p == PlacementOf(id)
    IN /\ pref.course_code = "*" \/ p.code = pref.course_code
       /\ IF p.is_lab THEN pref.can_lab ELSE pref.can_theory

\* lines 227-237: the groups by (section_id, subject_id) in order of first
\* appearance, flattened
RECURSIVE GroupBySection(_)
GroupBySection(ids) ==
    IF ids = << >> THEN << >>
    ELSE LET p == PlacementOf(Head(ids))
             same(id) == LET q == PlacementOf(id)
                         IN q.section = p.section /\ q.code = p.code /\ q.is_lab = p.is_lab
         IN SelectSeq(ids, same) \o GroupBySection(SelectSeq(ids, LAMBDA id : ~same(id)))

\* every matching placement, the assigned ones included
FindIgnoringAssigned(pref, assigned) ==
    GroupBySection(SelectSeq(timetable_slots, LAMBDA id : Matches(pref, id)))

\* _find_matching_slots
find_matching_slots(pref, assigned) ==
    GroupBySection(SelectSeq(timetable_slots, LAMBDA id : id \notin assigned /\ Matches(pref, id)))

\* the preference being processed
pref == sorted_prefs[pref_i]

\* no timeslot is ever taken
NeverInTimeslots(t, id) == FALSE

\* line 114: slot.timeslot.id in teacher_timeslots[teacher_id]
InTeacherTimeslots(t, id) == PlacementOf(id).timeslot \in teacher_timeslots[t]

\* lines 64-67: the optional clearing, then load_data
Begin ==
    /\ tpc = "start"
    /\ tpc' = "loaded"
    /\ LET cleared == IF tin.clear_existing THEN [id \in DOMAIN db_teacher |-> 0] ELSE db_teacher
           loaded == SelectSeq(tin.load_order, LAMBDA id : cleared[id] = 0)
       IN /\ db_teacher' = cleared
          /\ timetable_slots' = loaded
          /\ slot_teacher' = [id \in Range(loaded) |-> 0]
    /\ UNCHANGED <<tin, sorted_prefs, pref_i, matching_slots, assigned_count, assigned_slots,
                   teacher_timeslots, teacher_workload, assignments_to_save, t_result>>
    /\ UNCHANGED outside_teachers

\* lines 69-75
ReturnNoSlots ==
    /\ tpc = "loaded"
    /\ timetable_slots = << >>
    /\ tpc' = "done"
    /\ t_result' = [status |-> "no-slots", assigned |-> 0, unassigned |-> 0]
    /\ UNCHANGED <<tin, db_teacher, timetable_slots, slot_teacher, sorted_prefs, pref_i,
                   matching_slots, assigned_count, assigned_slots, teacher_timeslots,
                   teacher_workload, assignments_to_save>>
    /\ UNCHANGED outside_teachers

\* lines 77-83
ReturnNoPreferences ==
    /\ tpc = "loaded"
    /\ timetable_slots # << >>
    /\ tin.prefs = << >>
    /\ tpc' = "done"
    /\ t_result' = [status |-> "no-preferences", assigned |-> 0, unassigned |-> Len(timetable_slots)]
    /\ UNCHANGED <<tin, db_teacher, timetable_slots, slot_teacher, sorted_prefs, pref_i,
                   matching_slots, assigned_count, assigned_slots, teacher_timeslots,
                   teacher_workload, assignments_to_save>>
    /\ UNCHANGED outside_teachers

\* lines 85-93
StartLoop ==
    /\ tpc = "loaded"
    /\ timetable_slots # << >>
    /\ tin.prefs # << >>
    /\ tpc' = "prefs"
    /\ sorted_prefs' = sort_preferences_by_priority(tin.prefs)
    /\ pref_i' = 0
    /\ assigned_slots' = {}
    /\ teacher_workload' = [t \in Teachers |-> 0]
    /\ teacher_timeslots' = [t \in Teachers |-> {}]
    /\ assignments_to_save' = << >>
    /\ UNCHANGED <<tin, db_teacher, timetable_slots, slot_teacher, matching_slots,
                   assigned_count, t_result>>
    /\ UNCHANGED outside_teachers

\* lines 96-108: the next preference and its matching placements
NextPreference ==
    /\ tpc = "prefs"
    /\ pref_i < Len(sorted_prefs)
    /\ tpc' = "slots"
    /\ pref_i' = pref_i + 1
    /\ matching_slots' = find_matching_slots(sorted_prefs[pref_i + 1], assigned_slots)
    /\ assigned_count' = 0
    /\ UNCHANGED <<tin, db_teacher, timetable_slots, slot_teacher, sorted_prefs, assigned_slots,
                   teacher_timeslots, teacher_workload, assignments_to_save, t_result>>
    /\ UNCHANGED outside_teachers

\* lines 109-111: the list is exhausted or sections_needed is reached
EndPreference ==
    /\ tpc = "slots"
    /\ matching_slots = << >> \/ assigned_count >= pref.sections_count
    /\ tpc' = "prefs"
    /\ UNCHANGED <<tin, db_teacher, timetable_slots, slot_teacher, sorted_prefs, pref_i,
                   matching_slots, assigned_count, assigned_slots, teacher_timeslots,
                   teacher_workload, assignments_to_save, t_result>>
    /\ UNCHANGED outside_teachers

\* lines 113-115: the teacher already has a placement at this timeslot
SkipSlot ==
    /\ tpc = "slots"
    /\ matching_slots # << >>
    /\ assigned_count < pref.sections_count
    /\ InTeacherTimeslots(pref.teacher, Head(matching_slots))
    /\ matching_slots' = Tail(matching_slots)
    /\ UNCHANGED <<tin, tpc, db_teacher, timetable_slots, slot_teacher, sorted_prefs, pref_i,
                   assigned_count, assigned_slots, teacher_timeslots, teacher_workload,
                   assignments_to_save, t_result>>
    /\ UNCHANGED outside_teachers

\* lines 117-123
AssignSlot ==
    /\ tpc = "slots"
    /\ matching_slots # << >>
    /\ assigned_count < pref.sections_count
    /\ LET id == Head(matching_slots)
           ts == PlacementOf(id).timeslot
       IN /\ ~InTeacherTimeslots(pref.teacher, id)
          /\ slot_teacher' = [slot_teacher EXCEPT ![id] = pref.teacher]
          /\ assignments_to_save' = Append(assignments_to_save, id)
          /\ assigned_slots' = assigned_slots \cup {id}
          /\ teacher_timeslots' = [teacher_timeslots EXCEPT ![pref.teacher] = @ \cup {ts}]
          /\ teacher_workload' = [teacher_workload EXCEPT ![pref.teacher] = @ + 1]
    /\ assigned_count' = assigned_count + 1
    /\ matching_slots' = Tail(matching_slots)
    /\ UNCHANGED <<tin, tpc, db_teacher, timetable_slots, sorted_prefs, pref_i, t_result>>
    /\ UNCHANGED outside_teachers

\* lines 125-153: the assignments are saved and the statistics returned
SaveAll ==
    /\ tpc = "prefs"
    /\ pref_i = Len(sorted_prefs)
    /\ tpc' = "done"
    /\ db_teacher' = [id \in DOMAIN db_teacher |->
                         IF id \in Range(assignments_to_save) THEN slot_teacher[id] ELSE db_teacher[id]]
    /\ t_result' = [status |-> "ok", assigned |-> Cardinality(assigned_slots),
                    unassigned |-> Len(timetable_slots) - Cardinality(assigned_slots)]
    /\ UNCHANGED <<tin, timetable_slots, slot_teacher, sorted_prefs, pref_i, matching_slots,
                   assigned_count, assigned_slots, teacher_timeslots, teacher_workload,
                   assignments_to_save>>
    /\ UNCHANGED outside_teachers

\* lines 126-128: a save raises inside transaction.atomic(), the saves made so
\* far are rolled back and the exception leaves assign_teachers; the update
\* of line 65 was committed on its own before
SaveFails ==
    /\ tpc = "prefs"
    /\ pref_i = Len(sorted_prefs)
    /\ assignments_to_save # << >>
    /\ tpc' = "raised"
    /\ t_result' = [status |-> "raised"]
    /\ UNCHANGED <<tin, db_teacher, timetable_slots, slot_teacher, sorted_prefs, pref_i,
                   matching_slots, assigned_count, assigned_slots, teacher_timeslots,
                   teacher_workload, assignments_to_save>>
    /\ UNCHANGED outside_teachers

MaxSectionsCount == 2   \* sections_count of the preferences
MaxRuns == 2            \* calls of assign_teachers in a row

\* AssignTeachersView.post once more: a new TeacherAssigner over the rows and
\* preferences as they are stored now
CallAgain ==
    /\ tpc \in {"done", "raised"}
    /\ tin.run < MaxRuns
    /\ \E ce \in BOOLEAN :
          tin' = [tin EXCEPT !.clear_existing = ce, !.stored = db_teacher, !.run = @ + 1]
    /\ tpc' = "start"
    /\ timetable_slots' = << >>
    /\ slot_teacher' = << >>
    /\ sorted_prefs' = << >>
    /\ pref_i' = 0
    /\ matching_slots' = << >>
    /\ assigned_count' = 0
    /\ assigned_slots' = {}
    /\ teacher_timeslots' = << >>
    /\ teacher_workload' = << >>
    /\ assignments_to_save' = << >>
    /\ t_result' = [status |-> "pending"]
    /\ UNCHANGED db_teacher
    /\ UNCHANGED outside_teachers

Placement(id, code, lab, sec, ts) ==
    [id |-> id, code |-> code, is_lab |-> lab, section |-> sec, timeslot |-> ts]

\* two CS201 theory placements at the same timeslot in different rooms, a
\* CS201 lab and a CS202 theory placement
StoredPlacements ==
    <<Placement(1, "CS201", FALSE, "A", 1), Placement(2, "CS201", FALSE, "B", 1),
      Placement(3, "CS201", TRUE, "A", 2), Placement(4, "CS202", FALSE, "A", 3)>>

\* the orders in which the unordered query of load_data yields the rows
LoadOrders == {<<1, 2, 3, 4>>, <<4, 3, 2, 1>>}

\* the stored teacher fields before the run
StoredTeachers ==
    {[id \in 1..4 |-> 0], [id \in 1..4 |-> IF id = 4 THEN 1 ELSE 0],
     [id \in 1..4 |-> IF id = 2 THEN 1 ELSE 2]}

\* scenario S6: four CS201 theory and two CS201 lab placements of two
\* sections, each at a timeslot of its own
S6Placements ==
    <<Placement(1, "CS201", FALSE, "A", 1), Placement(2, "CS201", FALSE, "A", 2),
      Placement(3, "CS201", FALSE, "B", 3), Placement(4, "CS201", FALSE, "B", 4),
      Placement(5, "CS201", TRUE, "A", 5), Placement(6, "CS201", TRUE, "B", 6)>>

S6LoadOrders == {<<1, 2, 3, 4, 5, 6>>, <<6, 4, 2, 5, 3, 1>>}

S6Preferences ==
    <<[teacher |-> 1, course_code |-> "CS201", sections_count |-> 3, can_theory |-> TRUE, can_lab |-> FALSE],
      [teacher |-> 2, course_code |-> "*", sections_count |-> 10, can_theory |-> TRUE, can_lab |-> TRUE]>>

PreferencePool ==
    {[teacher |-> t, course_code |-> c, sections_count |-> n, can_theory |-> ty[1], can_lab |-> ty[2]] :
        t \in Teachers, c \in {"*", "CS201"}, n \in 1..MaxSectionsCount,
        ty \in {<<TRUE, FALSE>>, <<FALSE, TRUE>>, <<TRUE, TRUE>>}}

PreferenceLists ==
    {<< >>} \cup {<<a>> : a \in PreferencePool} \cup {<<a, b>> : a \in PreferencePool, b \in PreferencePool}

InitTeachers ==
    /\ \/ \E prefs \in PreferenceLists : \E ce \in BOOLEAN : \E o \in LoadOrders :
             \E st \in StoredTeachers :
                tin = [placements |-> StoredPlacements, prefs |-> prefs, clear_existing |-> ce,
                       load_order |-> o, stored |-> st, run |-> 1]
       \/ \E ce \in BOOLEAN : \E o \in S6LoadOrders :
             tin = [placements |-> S6Placements, prefs |-> S6Preferences, clear_existing |-> ce,
                    load_order |-> o, stored |-> [id \in 1..6 |-> 0], run |-> 1]
    /\ db_teacher = tin.stored
    /\ tpc = "start"
    /\ timetable_slots = << >>
    /\ slot_teacher = << >>
    /\ sorted_prefs = << >>
    /\ pref_i = 0
    /\ matching_slots = << >>
    /\ assigned_count = 0
    /\ assigned_slots = {}
    /\ teacher_timeslots = << >>
    /\ teacher_workload = << >>
    /\ assignments_to_save = << >>
    /\ t_result = [status |-> "pending"]
    /\ SolverIdle
    /\ ElectivesIdle
    /\ RunnerIdle

NextTeachers ==
    \/ Begin
    \/ ReturnNoSlots
    \/ ReturnNoPreferences
    \/ StartLoop
    \/ NextPreference
    \/ EndPreference
    \/ SkipSlot
    \/ AssignSlot
    \/ SaveAll
    \/ SaveFails
    \/ CallAgain

SpecTeachers == InitTeachers /\ [][NextTeachers]_vars

----------------------------------------------------------------------------
(* Properties of assign_teachers.                                           *)

\* the loaded placements that hold teacher t
HeldBy(t) == {id \in DOMAIN slot_teacher : slot_teacher[id] = t}

\* C19: within one run no teacher is assigned two placements with the same
\* timeslot, in the placement objects while the preferences are processed
\* and in the stored rows the run has written.
C19_NoTeacherClash ==
    /\ \A t \in Teachers : \A a, b \in HeldBy(t) :
          a # b => PlacementOf(a).timeslot # PlacementOf(b).timeslot
    /\ (tpc = "done" /\ t_result.status = "ok") =>
          \A a, b \in Range(assignments_to_save) :
              (a # b /\ db_teacher[a] = db_teacher[b]) =>
                  PlacementOf(a).timeslot # PlacementOf(b).timeslot

\* a teacher asked for two placements of any kind: the second placement of
\* timeslot 1 was skipped and the teacher got a placement of another timeslot
C19_Witness ==
    /\ tpc = "done"
    /\ t_result.status = "ok"
    /\ tin.prefs = <<[teacher |-> 1, course_code |-> "*", sections_count |-> 2,
                      can_theory |-> TRUE, can_lab |-> TRUE]>>
    /\ Cardinality(HeldBy(1)) = 2
    /\ Cardinality(HeldBy(1) \cap {1, 2}) = 1
    /\ Cardinality(HeldBy(0) \cap {1, 2}) = 1

\* C20: within a run, once the rows are loaded, a placement's teacher field
\* changes at most once, from unassigned to one teacher: the placement
\* object that holds a teacher keeps it, and a stored field changes only
\* from unassigned to the teacher of its placement object.
C20_AssignedOnce ==
    [][tpc \notin {"start", "done", "raised"} =>
          /\ DOMAIN slot_teacher' = DOMAIN slot_teacher
          /\ \A id \in DOMAIN slot_teacher :
                slot_teacher[id] # 0 => slot_teacher'[id] = slot_teacher[id]
          /\ \A id \in DOMAIN db_teacher :
                db_teacher'[id] # db_teacher[id] =>
                    /\ db_teacher[id] = 0
                    /\ db_teacher'[id] # 0
                    /\ db_teacher'[id] = slot_teacher[id]]_vars

\* two preferences of different teachers matched placement 1; it holds the
\* teacher of the first one after the second was processed and saved
C20_Witness ==
    /\ tpc = "done"
    /\ t_result.status = "ok"
    /\ Len(sorted_prefs) = 2
    /\ sorted_prefs[1].teacher # sorted_prefs[2].teacher
    /\ Matches(sorted_prefs[1], 1)
    /\ Matches(sorted_prefs[2], 1)
    /\ 1 \in DOMAIN slot_teacher
    /\ slot_teacher[1] = sorted_prefs[1].teacher
    /\ db_teacher[1] = sorted_prefs[1].teacher

----------------------------------------------------------------------------
(* Further properties of schedule_timetable and of the hierarchical driver. *)

\* the placements demanded: times_needed of every subject of a kind, for
\* every section of its semester
DemandOf(isLab) ==
    LET P == UNION {semester_sections_map2(sem) \X DOMAIN cfg.semester_courses_map[sem] : sem \in SelSems}
        course(p) == cfg.semester_courses_map[p[1][1]][p[2]]
    IN SumOver(P, [p \in P |-> IF course(p)[2] = isLab THEN course(p)[3] ELSE 0])

\* the (room, day, slot) triples of the call's rooms that the ledger leaves free
FreeTheory == {x \in theory_rooms \X DaySet \X TheorySet : x \notin cfg.usage_data.theory}
FreeLab == {x \in combined_labs \X DaySet \X LabSet : x \notin cfg.usage_data.lab}

\* C25: whenever the theory placements demanded over every section exceed
\* the free theory triples of the ledger, or the lab placements the free lab
\* triples, schedule_timetable raises the capacity error and builds no model.
C25_CapacityRejected ==
    (dpc = "direct" /\ (DemandOf(FALSE) > Cardinality(FreeTheory) \/ DemandOf(TRUE) > Cardinality(FreeLab)))
        => pc \in {"start", "capacity_error"}

\* C29: when a semester's result holds allocations of kind cohort, the merge
\* into the ledger succeeds, the theory and lab occupancy after it is that of
\* the ledger passed in plus the theory and lab allocations, and the driver
\* goes on.
C29_CohortMerge ==
    (HierarchicalUsed /\ pc = "returned" /\ dpc # "solving"
       /\ \E a \in new_allocations : a[1] = "cohort")
        => /\ result.status # "raised"
           /\ dpc \in {"loop", "done"}
           /\ \A kind \in {"theory", "lab"} :
                 SlotsAt(heap, current_usage, kind)
                    = SlotsAt(heap, existing_usage, kind) \cup AllocSlots(new_allocations, kind)

----------------------------------------------------------------------------
(* Further properties of assign_teachers.                                   *)

\* the specificity class of a preference, 1 to 4
SpecificityClass(p) ==
    IF p.course_code # "*"
    THEN (IF p.can_theory /\ p.can_lab THEN 2 ELSE 1)
    ELSE (IF p.can_theory /\ p.can_lab THEN 4 ELSE 3)

\* (class, course_code, teacher name) of a before or equal to that of b
OrderedBefore(a, b) ==
    \/ SpecificityClass(a) < SpecificityClass(b)
    \/ /\ SpecificityClass(a) = SpecificityClass(b)
       /\ \/ CodeRank(a.course_code) < CodeRank(b.course_code)
          \/ /\ a.course_code = b.course_code
             /\ a.teacher <= b.teacher

\* the two sequences hold the same elements, each as often
SameBag(s, t) ==
    /\ Len(s) = Len(t)
    /\ \A x \in Range(s) \cup Range(t) :
          Cardinality({i \in DOMAIN s : s[i] = x}) = Cardinality({i \in DOMAIN t : t[i] = x})

\* C21: the preferences are taken up one after the other, each after the
\* one before it is finished, in the lexicographic order of (specificity
\* class, course_code, teacher name), preferences of equal key in the order
\* they were stored in; so every preference of a lower class is processed
\* before any preference of a higher class.
C21_ProcessingOrder ==
    [][pref_i' # pref_i =>
          \/ pref_i' = 0
          \/ /\ pref_i' = pref_i + 1
             /\ tpc = "prefs"
             /\ sorted_prefs' = sorted_prefs
             /\ SameBag(sorted_prefs, tin.prefs)
             /\ \A j \in 1..pref_i : OrderedBefore(sorted_prefs[j], sorted_prefs[pref_i'])
             /\ \A j \in (pref_i' + 1)..Len(sorted_prefs) :
                   /\ OrderedBefore(sorted_prefs[pref_i'], sorted_prefs[j])
                   /\ SpecificityClass(sorted_prefs[j]) >= SpecificityClass(sorted_prefs[pref_i'])]_vars

\* a wildcard preference was stored before a preference for one course and
\* was processed after it
C21_Witness ==
    /\ tpc = "done"
    /\ t_result.status = "ok"
    /\ Len(tin.prefs) = 2
    /\ pref_i = 2
    /\ SpecificityClass(tin.prefs[1]) = 4
    /\ SpecificityClass(tin.prefs[2]) = 1
    /\ sorted_prefs = <<tin.prefs[2], tin.prefs[1]>>

\* does the placement match the preference?
MatchesPreference(p, id) ==
    /\ p.course_code = "*" \/ PlacementOf(id).code = p.course_code
    /\ PlacementOf(id).is_lab => p.can_lab
    /\ ~PlacementOf(id).is_lab => p.can_theory

\* the placements assigned on behalf of the preference just processed
AssignedOnBehalf ==
    {assignments_to_save[k] :
        k \in (Len(assignments_to_save) - assigned_count + 1)..Len(assignments_to_save)}

\* the placements assigned in this run before the preference was reached
AssignedEarlier == Range(assignments_to_save) \ AssignedOnBehalf

\* the timeslots the teacher held when the preference was reached, by a
\* stored row or by an assignment made earlier in the run
HeldWhenReached(t) ==
    {PlacementOf(id).timeslot : id \in {i \in DOMAIN db_teacher :
        db_teacher[i] = t \/ (i \in AssignedEarlier /\ slot_teacher[i] = t)}}

\* the timeslots of the placements that match the preference and were
\* unassigned when it was reached
MatchingTimeslots(p) ==
    {PlacementOf(id).timeslot : id \in {i \in DOMAIN db_teacher :
        db_teacher[i] = 0 /\ i \notin AssignedEarlier /\ MatchesPreference(p, i)}}

\* the placements of a kind that hold the teacher
S6Held(t, lab) == {id \in DOMAIN db_teacher : db_teacher[id] = t /\ PlacementOf(id).is_lab = lab}

\* C22: the placements assigned on behalf of a preference all match it, and
\* there are min(sections_count, number of distinct timeslots not held by
\* the teacher among the matching unassigned placements) of them; in S6
\* Alice gets 3 of the 4 theory placements and Bob the fourth and both labs.
C22_AssignedPerPreference ==
    /\ (tpc = "prefs" /\ pref_i >= 1) =>
          /\ \A id \in AssignedOnBehalf :
                MatchesPreference(pref, id) /\ slot_teacher[id] = pref.teacher
          /\ Cardinality(AssignedOnBehalf) =
                MinOf({pref.sections_count,
                       Cardinality(MatchingTimeslots(pref) \ HeldWhenReached(pref.teacher))})
    /\ (tpc = "done" /\ t_result.status = "ok" /\ tin.placements = S6Placements /\ tin.run = 1) =>
          /\ Cardinality(S6Held(1, FALSE)) = 3
          /\ S6Held(1, TRUE) = {}
          /\ Cardinality(S6Held(2, FALSE)) = 1
          /\ S6Held(2, TRUE) = {5, 6}

\* C27: when a write of the run fails, every stored teacher field is as it
\* was before the call.
C27_AllOrNothing == tpc = "raised" => db_teacher = tin.stored

\* C28: after any sequence of calls no teacher holds two stored placements
\* of the same timeslot.
C28_NoStoredClash ==
    tpc \in {"done", "raised"} =>
        \A a, b \in DOMAIN db_teacher :
            (a # b /\ db_teacher[a] # 0 /\ db_teacher[a] = db_teacher[b]) =>
                PlacementOf(a).timeslot # PlacementOf(b).timeslot

----------------------------------------------------------------------------
(* scheduler_runner: run_main_schedule and run_electives over the stored    *)
(* rows.  A TimeSlot row is [day, start_time, end_time, slot_type] with day *)
(* 0..5 and the times in minutes; the catalogue holds one row per day and   *)
(* window of the solver's tables.  A TimetableSlot row is [section,         *)
(* subject, room, timeslot], an ElectiveSlot row [elective, room, timeslot],*)
(* a ScheduleRun row [run_type, input_hash, created_count] and the runs are *)
(* kept in the order of created_at.  Calls are made with enable_cohort off. *)

\* Room rows: name -> room_type; the one room stored is a lab
Rooms == ("L1" :> "lab")

\* Room.objects.filter(room_type=...).values_list("name", flat=True)
RoomsOfType(type) == IF type = "lab" THEN <<"L1">> ELSE << >>

None == 0 - 1

\* _day_index_to_name
day_index_to_name(idx) == DAYS[idx + 1]

TimeSlotRow(day, start, end, type) ==
    [day |-> day, start_time |-> start, end_time |-> end, slot_type |-> type]

\* theory_index_map.get((start_time, end_time)) of _build_slot_mappings
theory_index_map(ts) ==
    LET hit == {i \in TheorySet : theory_start_times[i] = ts.start_time /\ theory_end_times[i] = ts.end_time}
    IN IF hit = {} THEN None ELSE CHOOSE i \in hit : TRUE

\* lab_index_map.get((start_time, end_time))
lab_index_map(ts) ==
    LET hit == {i \in LabSet : lab_start_times[i] = ts.start_time /\ lab_end_times[i] = ts.end_time}
    IN IF hit = {} THEN None ELSE CHOOSE i \in hit : TRUE

\* the (room, day, slot) triple of a kind that a row occupies in the ledger
LedgerTriple(row) ==
    LET idx == IF Rooms[row.room] = "theory" THEN theory_index_map(row.timeslot)
               ELSE lab_index_map(row.timeslot)
    IN <<row.room, day_index_to_name(row.timeslot.day), idx>>

\* a ledger built from the ElectiveSlot rows alone
UsageOfElectiveSlots(db) ==
    LET of(kind) == {LedgerTriple(r) : r \in {x \in db.es : Rooms[x.room] = kind /\ LedgerTriple(x)[3] # None}}
    IN [theory |-> of("theory"), lab |-> of("lab")]

\* a ledger built from the TimetableSlot rows alone
UsageOfTimetableSlots(db) ==
    LET of(kind) == {LedgerTriple(r) : r \in {x \in db.tt : Rooms[x.room] = kind /\ LedgerTriple(x)[3] # None}}
    IN [theory |-> of("theory"), lab |-> of("lab")]

\* _build_usage_data: every TimetableSlot row and every ElectiveSlot row
build_usage_data(db) ==
    LET of(kind) == {LedgerTriple(r) : r \in {x \in db.tt \cup db.es :
                                                Rooms[x.room] = kind /\ LedgerTriple(x)[3] # None}}
    IN [theory |-> of("theory"), lab |-> of("lab")]

\* _hash_dict: SHA-256 of the canonical JSON text, taken to be free of collisions
hash_dict(payload) == <<"sha256", payload>>

\* lines 260-286; the subjects come ordered by code from the query
main_fingerprint(inputs) ==
    hash_dict([selected_semesters |-> <<1>>,
               semester_courses |-> inputs.subjects,
               theory_rooms |-> RoomsOfType("theory"),
               lab_rooms |-> RoomsOfType("lab"),
               program_code |-> "A",
               section_size |-> inputs.section_size,
               enable_cohort |-> FALSE,
               constraints |-> inputs.constraints])

\* lines 441-462
electives_fingerprint(inputs, db) ==
    hash_dict([theory_rooms |-> RoomsOfType("theory"),
               lab_rooms |-> RoomsOfType("lab"),
               electives |-> inputs.electives,
               theory_needed |-> inputs.theory_needed,
               lab_needed |-> inputs.lab_needed,
               timetable |-> {<<Rooms[tt.room], tt.room, day_index_to_name(tt.timeslot.day),
                                tt.timeslot.start_time, tt.timeslot.end_time>> : tt \in db.tt}])

\* ScheduleRun.objects.filter(run_type=...).order_by("-created_at").first()
last_run(db, run_type) ==
    LET of == {i \in DOMAIN db.runs : db.runs[i].run_type = run_type}
    IN IF of = {} THEN [run_type |-> "none"] ELSE db.runs[MaxOf(of)]

\* the solver is always run
NeverShortCircuit(db, run_type, hash) == FALSE

\* lines 289-290 and 464-465
short_circuit(db, run_type, hash) ==
    /\ last_run(db, run_type).run_type # "none"
    /\ last_run(db, run_type).input_hash = hash
    /\ (IF run_type = "main" THEN db.tt ELSE db.es) # {}

\* the rows written so far stay
NoRollback(before, written) == written

\* an exception leaves transaction.atomic(): the rows are as before the block
atomic_rollback(before, written) == before

\* ts_index[(day_idx, slot_idx, slot_type)] over the catalogue
ts_index(day_idx, slot_idx, slot_type) ==
    IF slot_type = "theory"
    THEN TimeSlotRow(day_idx, theory_start_times[slot_idx], theory_end_times[slot_idx], "theory")
    ELSE TimeSlotRow(day_idx, lab_start_times[slot_idx], lab_end_times[slot_idx], "lab")

\* lines 348-385: the TimetableSlot row of an entry of schedule_map
TimetableRow(e) ==
    [section |-> e[4], subject |-> e[5], room |-> e[3],
     timeslot |-> ts_index(DayIndex(e[1]) - 1, e[2], IF Rooms[e[3]] = "lab" THEN "lab" ELSE "theory")]

\* lines 505-530: the ElectiveSlot row of an allocation
ElectiveRow(a) ==
    [elective |-> a[5][1], room |-> a[2], timeslot |-> ts_index(DayIndex(a[3]) - 1, a[4], a[1])]

\* unique_together (room, timeslot) of TimetableSlot: the insert of a row
\* whose pair another row holds raises IntegrityError
UniqueViolation(rows) ==
    \E a, b \in rows : a # b /\ a.room = b.room /\ a.timeslot = b.timeslot

MaxCalls == 2   \* calls of run_main_schedule and run_electives in a row

\* what the next call remembers of the call before it
PrevOf ==
    IF rcall.n = 0 THEN [kind |-> "none"]
    ELSE [kind |-> rcall.kind, inputs |-> rcall.inputs, status |-> r_result.status, hash |-> rcall.hash]

NewCall(kind, inputs, ce, hash, solved) ==
    [n |-> rcall.n + 1, kind |-> kind, inputs |-> inputs, clear_existing |-> ce, hash |-> hash,
     before |-> rdb, solved |-> solved, prev |-> PrevOf]

\* no class ends after 10:00: one slot a day is left to the main solver
RunnerConstraints == Constraints(8, 6, 15, 10)

\* the subjects of the one semester as they are stored when the call is made
SubjectVariants == {<< >>, <<<<"LB", TRUE, 1>>>>, <<<<"LC", TRUE, 1>>>>}

MainInputs ==
    {[subjects |-> sv, section_size |-> 50, constraints |-> RunnerConstraints] : sv \in SubjectVariants}

\* the ElectiveConfig rows as they are stored when the call is made
ElectiveVariants == {<< >>, <<Elective("EA", 1, FALSE, TRUE)>>}

ElectivesInputs ==
    {[electives |-> ev, theory_needed |-> 2, lab_needed |-> 1] : ev \in ElectiveVariants}

\* the arguments run_main_schedule passes to schedule_timetable, lines 297-316
MainConfig(inputs, usage) ==
    [Base EXCEPT !.semester_courses_map = (1 :> inputs.subjects),
                 !.theory_rooms = RoomsOfType("theory"),
                 !.lab_rooms = RoomsOfType("lab"),
                 !.section_size = inputs.section_size,
                 !.constraints = inputs.constraints,
                 !.usage_data = usage]

\* lines 202-291: the fingerprint matches the last main run and rows exist
MainNoChange ==
    /\ rpc = "idle"
    /\ rcall.n < MaxCalls
    /\ \E inputs \in MainInputs : \E ce \in BOOLEAN :
          LET input_hash == main_fingerprint(inputs)
          IN /\ short_circuit(rdb, "main", input_hash)
             /\ rcall' = NewCall("main", inputs, ce, input_hash, FALSE)
             /\ r_result' = [status |-> "no-change", created |-> 0, hash |-> input_hash]
    /\ UNCHANGED <<rdb, rpc, svars, evars>>
    /\ UNCHANGED outside_runner

\* lines 202-316: the ledger is built from the stored rows and
\* schedule_timetable is called
MainCallSolver ==
    /\ rpc = "idle"
    /\ rcall.n < MaxCalls
    /\ \E inputs \in MainInputs : \E ce \in BOOLEAN :
          LET input_hash == main_fingerprint(inputs)
          IN /\ ~short_circuit(rdb, "main", input_hash)
             /\ rcall' = NewCall("main", inputs, ce, input_hash, TRUE)
             /\ cfg' = MainConfig(inputs, build_usage_data(rdb))
    /\ rpc' = "main_solving"
    /\ r_result' = [status |-> "pending"]
    /\ pc' = "start"
    /\ val' = {}
    /\ coh' = {}
    /\ schedule_map' = {}
    /\ new_allocations' = {}
    /\ UNCHANGED <<rdb, evars>>
    /\ UNCHANGED outside_runner

\* lines 318-319
MainInfeasible ==
    /\ rpc = "main_solving"
    /\ pc = "none"
    /\ rpc' = "idle"
    /\ r_result' = [status |-> "infeasible"]
    /\ UNCHANGED <<rdb, rcall, svars, evars>>
    /\ UNCHANGED outside_runner

\* the ValueError of the capacity check leaves run_main_schedule at line 297
MainCapacityError ==
    /\ rpc = "main_solving"
    /\ pc = "capacity_error"
    /\ rpc' = "idle"
    /\ r_result' = [status |-> "capacity_error"]
    /\ UNCHANGED <<rdb, rcall, svars, evars>>
    /\ UNCHANGED outside_runner

\* the TimetableSlot rows that stay when the block of lines 324-326 begins
KeptTimetable == IF rcall.clear_existing THEN {} ELSE rdb.tt

\* lines 321-401: the rows are replaced or extended and the run is recorded
MainPersist ==
    /\ rpc = "main_solving"
    /\ pc = "returned"
    /\ LET rows == KeptTimetable \cup {TimetableRow(e) : e \in schedule_map}
           created == Cardinality(schedule_map)
       IN /\ ~UniqueViolation(rows)
          /\ rdb' = [rdb EXCEPT !.tt = rows,
                                !.runs = Append(@, [run_type |-> "main", input_hash |-> rcall.hash,
                                                    created_count |-> created])]
          /\ r_result' = [status |-> "ok", created |-> created, hash |-> rcall.hash]
    /\ rpc' = "idle"
    /\ UNCHANGED <<rcall, svars, evars>>
    /\ UNCHANGED outside_runner

\* lines 324-385: a statement of the block raises after some of the rows
\* were written
MainPersistFails ==
    /\ rpc = "main_solving"
    /\ pc = "returned"
    /\ \E W \in SUBSET {TimetableRow(e) : e \in schedule_map} :
          rdb' = [rdb EXCEPT !.tt = atomic_rollback(rdb.tt, KeptTimetable \cup W)]
    /\ rpc' = "idle"
    /\ r_result' = [status |-> "persist_error"]
    /\ UNCHANGED <<rcall, svars, evars>>
    /\ UNCHANGED outside_runner

\* lines 404-466: the fingerprint matches the last electives run and rows exist
ElectivesNoChange ==
    /\ rpc = "idle"
    /\ rcall.n < MaxCalls
    /\ \E inputs \in ElectivesInputs : \E ce \in BOOLEAN :
          LET electives_hash == electives_fingerprint(inputs, rdb)
          IN /\ short_circuit(rdb, "electives", electives_hash)
             /\ rcall' = NewCall("electives", inputs, ce, electives_hash, FALSE)
             /\ r_result' = [status |-> "no-change", created |-> 0, hash |-> electives_hash]
    /\ UNCHANGED <<rdb, rpc, svars, evars>>
    /\ UNCHANGED outside_runner

\* lines 404-480: schedule_electives is called with the ledger of the stored rows
ElectivesCallSolver ==
    /\ rpc = "idle"
    /\ rcall.n < MaxCalls
    /\ \E inputs \in ElectivesInputs : \E ce \in BOOLEAN :
          LET electives_hash == electives_fingerprint(inputs, rdb)
          IN /\ ~short_circuit(rdb, "electives", electives_hash)
             /\ rcall' = NewCall("electives", inputs, ce, electives_hash, TRUE)
             /\ elec' = [electives_list |-> inputs.electives,
                         usage_data |-> build_usage_data(rdb),
                         theory_rooms |-> RoomsOfType("theory"),
                         lab_rooms |-> RoomsOfType("lab"),
                         theory_needed |-> inputs.theory_needed,
                         lab_needed |-> inputs.lab_needed]
    /\ rpc' = "electives_solving"
    /\ r_result' = [status |-> "pending"]
    /\ epc' = "search"
    /\ e_choose' = {}
    /\ e_val' = {}
    /\ e_result' = [status |-> "pending", schedule_map |-> {}, new_allocations |-> {}]
    /\ UNCHANGED <<rdb, svars>>
    /\ UNCHANGED outside_runner

\* lines 482-483
ElectivesInfeasible ==
    /\ rpc = "electives_solving"
    /\ epc = "none"
    /\ rpc' = "idle"
    /\ r_result' = [status |-> "infeasible"]
    /\ UNCHANGED <<rdb, rcall, svars, evars>>
    /\ UNCHANGED outside_runner

KeptElectives == IF rcall.clear_existing THEN {} ELSE rdb.es

\* lines 485-543
ElectivesPersist ==
    /\ rpc = "electives_solving"
    /\ epc = "returned"
    /\ LET created == Cardinality(e_result.new_allocations)
       IN /\ rdb' = [rdb EXCEPT !.es = KeptElectives \cup {ElectiveRow(a) : a \in e_result.new_allocations},
                                !.runs = Append(@, [run_type |-> "electives", input_hash |-> rcall.hash,
                                                    created_count |-> created])]
          /\ r_result' = [status |-> "ok", created |-> created, hash |-> rcall.hash]
    /\ rpc' = "idle"
    /\ UNCHANGED <<rcall, svars, evars>>
    /\ UNCHANGED outside_runner

\* lines 487-530: a statement of the block raises
ElectivesPersistFails ==
    /\ rpc = "electives_solving"
    /\ epc = "returned"
    /\ \E W \in SUBSET {ElectiveRow(a) : a \in e_result.new_allocations} :
          rdb' = [rdb EXCEPT !.es = atomic_rollback(rdb.es, KeptElectives \cup W)]
    /\ rpc' = "idle"
    /\ r_result' = [status |-> "persist_error"]
    /\ UNCHANGED <<rcall, svars, evars>>
    /\ UNCHANGED outside_runner

\* nothing is stored
EmptyDB == [tt |-> {}, es |-> {}, runs |-> << >>]

\* the TimetableSlot rows of an earlier main run, of other subjects, that
\* hold every slot of the lab room but the free ones
OldTimetable(free) ==
    {[section |-> <<1, 1>>, subject |-> "OLD", room |-> "L1", timeslot |-> ts_index(x[1], x[2], "lab")] :
        x \in ((0..5) \X LabSet) \ free}

OldMainRun(n) ==
    [run_type |-> "main",
     input_hash |-> main_fingerprint([subjects |-> <<<<"OLD", TRUE, n>>>>, section_size |-> 50,
                                      constraints |-> DefaultConstraints]),
     created_count |-> n]

\* the old timetable leaves the first slot of Monday and Tuesday and the
\* second slot of Wednesday
OldTimetableDB ==
    [tt |-> OldTimetable({<<0, 0>>, <<1, 0>>, <<2, 1>>}), es |-> {}, runs |-> <<OldMainRun(21)>>]

\* the old timetable uses every slot of the lab room
FullLabDB == [tt |-> OldTimetable({}), es |-> {}, runs |-> <<OldMainRun(24)>>]

\* an earlier electives run holds the first lab slot of every day, the old
\* timetable every later slot but the second one of Monday
SlotZeroDB ==
    [tt |-> OldTimetable({<<d, 0>> : d \in 0..5} \cup {<<0, 1>>}),
     es |-> {[elective |-> "EO", room |-> "L1", timeslot |-> ts_index(d, 0, "lab")] : d \in 0..5},
     runs |-> <<OldMainRun(17),
                [run_type |-> "electives",
                 input_hash |-> electives_fingerprint([electives |-> <<Elective("EO", 6, FALSE, TRUE)>>,
                                                       theory_needed |-> 2, lab_needed |-> 1], EmptyDB),
                 created_count |-> 6]>>]

InitRunner ==
    /\ rdb \in {OldTimetableDB, FullLabDB, SlotZeroDB}
    /\ rcall = NoCall
    /\ rpc = "idle"
    /\ r_result = [status |-> "pending"]
    /\ SolverIdle
    /\ ElectivesIdle
    /\ TeachersIdle

NextRunner ==
    \/ MainNoChange
    \/ MainCallSolver
    \/ RaiseCapacityError
    \/ BuildModel
    \/ \E k \in assignments : SetAssign(k)
    \/ ReturnSchedule
    \/ RejectCandidate
    \/ ReturnNone
    \/ MainInfeasible
    \/ MainCapacityError
    \/ MainPersist
    \/ MainPersistFails
    \/ ElectivesNoChange
    \/ ElectivesCallSolver
    \/ \E sec \in ESections : SetChooseTheory(sec)
    \/ \E k \in e_assignments : SetElective(k)
    \/ ReturnElectives
    \/ RejectElectives
    \/ ElectivesNone
    \/ ElectivesInfeasible
    \/ ElectivesPersist
    \/ ElectivesPersistFails

SpecRunner == InitRunner /\ [][NextRunner]_vars

----------------------------------------------------------------------------
(* Properties of run_main_schedule and run_electives.                       *)

\* a call has come back
AfterCall == rpc = "idle" /\ rcall.n >= 1

\* the call repeats the call before it, which returned ok
SameAgain ==
    /\ rcall.n >= 2
    /\ rcall.prev.kind = rcall.kind
    /\ rcall.prev.inputs = rcall.inputs
    /\ rcall.prev.status = "ok"

\* the rows a kind of run writes
OutputRows(db, kind) == IF kind = "main" THEN db.tt ELSE db.es

\* the second call of two equal calls changes nothing and solves nothing
RepeatedQuietly ==
    /\ r_result.status = "no-change"
    /\ r_result.hash = rcall.prev.hash
    /\ ~rcall.solved
    /\ rdb = rcall.before

\* the last run of the kind has another fingerprint, or the rows of the kind
\* are gone
StaleOrEmpty ==
    \/ /\ last_run(rcall.before, rcall.kind).run_type # "none"
       /\ last_run(rcall.before, rcall.kind).input_hash # rcall.hash
    \/ OutputRows(rcall.before, rcall.kind) = {}

PairOf(row) == <<row.room, row.timeslot>>

\* C24: no (room, timeslot) pair is held by two TimetableSlot rows, by two
\* ElectiveSlot rows, or by a TimetableSlot row and an ElectiveSlot row.
C24_NoDoubleBooking ==
    /\ \A a, b \in rdb.tt : a # b => PairOf(a) # PairOf(b)
    /\ \A a, b \in rdb.es : a # b => PairOf(a) # PairOf(b)
    /\ \A a \in rdb.tt : \A b \in rdb.es : PairOf(a) # PairOf(b)

\* a main run and an electives run, in either order, each stored a row next
\* to the rows of the other table
C24_Witness ==
    /\ AfterCall
    /\ rcall.n = 2
    /\ rcall.prev.kind # rcall.kind
    /\ rcall.prev.status = "ok"
    /\ r_result.status = "ok"
    /\ \E r \in rdb.tt : r.subject \in {"LB", "LC"}
    /\ \E r \in rdb.es : r.elective = "EA"

\* C26: a call of run_main_schedule that ends infeasible, with the capacity
\* error or with a failure while the rows are written leaves the
\* TimetableSlot rows and the ScheduleRun rows as they were before the call.
C26_NoPartialCommit ==
    (AfterCall /\ rcall.kind = "main" /\ r_result.status \in {"infeasible", "capacity_error", "persist_error"})
        => /\ rdb.tt = rcall.before.tt
           /\ rdb.runs = rcall.before.runs

\* the rows were to be replaced (clear_existing) and writing them failed
C26_Witness ==
    /\ AfterCall
    /\ rcall.kind = "main"
    /\ r_result.status = "persist_error"
    /\ rcall.clear_existing
    /\ rcall.before.tt # {}
    /\ schedule_map # {}

\* C30: when run_main_schedule solves with clear_existing, the ledger given
\* to the solver holds the triples of the ElectiveSlot rows only.
C30_ClearedSlotsFree ==
    (rpc = "main_solving" /\ rcall.clear_existing) => cfg.usage_data = UsageOfElectiveSlots(rdb)

====
